---------------------------- MODULE Spec2Model ----------------------------
(***************************************************************************)
(* A model of go-fAST's host-facing layers: the parser's error collector,  *)
(* the ESTree serializer and its buffer pool, the WASM entry point         *)
(* goFastParse (parseJS) and the JavaScript/TypeScript wrappers            *)
(* (init / parse / parseAsync / teardown).                                 *)
(*                                                                         *)
(* Each subsystem has its own specification over the one set of variables; *)
(* the variables of the other subsystems stay at their initial values.     *)
(*                                                                         *)
(* Text is modelled at the level the code works on it:                     *)
(*   - a Go string that the code walks byte by byte (a source, a name, a   *)
(*     message) is a sequence of byte codes (Nat);                         *)
(*   - the serializer's output buffer is a sequence of pieces: a piece is  *)
(*     a chunk that one write appends.  A string literal of the code such  *)
(*     as `{"type":"Program","body":[` is cut at its JSON token            *)
(*     boundaries, and a quoted key or constant inside it is one piece.    *)
(***************************************************************************)
EXTENDS Integers, Sequences, FiniteSets, TLC

VARIABLES
    \* ---- parser error collector (package parser)
    str,            \* p.str: the source the parser works on
    errors,         \* p.errors: the ErrorList
    addArgs,        \* the arguments of the most recent ErrorList.Add call
    errCall,        \* the most recent call on the collector and what it gave
    parse,          \* one run of the parser over str: where it stands
    \* ---- serializer, one call seen as a function
    node,           \* the node handed to Serialize
    out,            \* the string Serialize returned
    serPc,          \* "ready" | "done"
    \* ---- serializer buffer pool, concurrent Serialize calls
    serializerPool, \* the Serializers lying in the sync.Pool
    buffers,        \* per Serializer ever made: the backing array of s.out
                    \* (mem) and the length of the slice s.out (len)
    calls,          \* per goroutine: its Serialize call
    \* ---- goFastParse, the function the Go build registers
    goArgs,         \* args of the most recent call
    goPanic,        \* the callee that panicked in it, "none" when none did
    goTrace,        \* the callees it invoked, in order
    goResult,       \* what it returned
    goHeap,         \* across the calls: how many trees ParseFile has made
                    \* (a tree is the number it was made as) and the trees
                    \* handed to Resolve, in order
    \* ---- the scope resolver
    tree,           \* the Program that resolver.Resolve works on, in place
    resPc,          \* "parsed" | "resolved"
    \* ---- the JavaScript wrappers around goFastParse
    wrapper,        \* which wrapper module is loaded
    goFastParse,    \* the module's `let goFastParse`: 0 is null, n the function
                    \* that the n-th go.run registered
    globalGoFastParse,  \* globalThis.goFastParse: 0 is undefined
    initialized,    \* the module's `let initialized`
    initPromise,    \* the module's `let initPromise`: 0 is null, p a promise
    promises,       \* the promises of the started initializations
    runs,           \* how many times go.run has been called
    tornDown,       \* a teardown has been called
    ready,          \* an init has completed and no teardown has run since
    pending,        \* the async calls that are waiting at their await
    last,           \* the most recent call that completed, and its outcome
    \* ---- the two string encoders, each seen as a function
    strFn,          \* "none" | "writeString" | "errorJSON"
    strArg,         \* the string it was handed
    strOut          \* the text it produced

errVars == <<str, errors, addArgs, errCall, parse>>
serVars == <<node, out, serPc>>
poolVars == <<serializerPool, buffers, calls>>
goVars == <<goArgs, goPanic, goTrace, goResult, goHeap>>
resVars == <<tree, resPc>>
jsVars == <<wrapper, goFastParse, globalGoFastParse, initialized, initPromise,
           promises, runs, tornDown, ready, pending, last>>
strVars == <<strFn, strArg, strOut>>
vars == <<str, errors, addArgs, errCall, parse, node, out, serPc, serializerPool, buffers, calls,
          goArgs, goPanic, goTrace, goResult, goHeap, tree, resPc,
          wrapper, goFastParse, globalGoFastParse, initialized, initPromise,
          promises, runs, tornDown, ready, pending, last, strFn, strArg, strOut>>

\* what each subsystem leaves alone
notErrVars == <<serVars, poolVars, goVars, resVars, jsVars, strVars>>
notSerVars == <<errVars, poolVars, goVars, resVars, jsVars, strVars>>
notPoolVars == <<errVars, serVars, goVars, resVars, jsVars, strVars>>
notGoVars == <<errVars, serVars, poolVars, resVars, jsVars, strVars>>
notResVars == <<errVars, serVars, poolVars, goVars, jsVars, strVars>>
notJsVars == <<errVars, serVars, poolVars, goVars, resVars, strVars>>
notStrVars == <<errVars, serVars, poolVars, goVars, resVars, jsVars>>

(***************************************************************************)
(* Bounds of the model.                                                    *)
(***************************************************************************)
MaxSrcLen == 3      \* longest source text of the error collector's runs
MaxErrors == 2      \* most records in one ErrorList

(***************************************************************************)
(* Bytes.                                                                  *)
(***************************************************************************)
NL == 10            \* '\n'
CR == 13            \* '\r'
TAB == 9            \* '\t'
QUOTE == 34         \* '"'
BACKSLASH == 92     \* '\\'
SPACE == 32         \* 0x20, the first byte that is not a control byte
NameA == <<97>>     \* the name "a"

Min(a, b) == IF a < b THEN a ELSE b

(***************************************************************************)
(* Idle values: what a subsystem's variables hold in the specifications    *)
(* of the other subsystems.                                                *)
(***************************************************************************)
NoArgs == [idx |-> 0, msg |-> "", src |-> <<>>]
Nil == [kind |-> "nil"]

\* no call yet: op names the operation, text is what Error() returned, isNil
\* whether Err() returned nil, ret the error a parser function returned,
\* reads the number of bytes of the source the call looked at
NoErrCall ==
    [op |-> "none", text |-> <<>>, isNil |-> TRUE, ret |-> <<>>, reads |-> 0,
     tkn |-> "", literal |-> ""]

\* no run: pc is the step the run is at, idx the Idx of the next byte to
\* scan, tok and at the current token and its Idx, consumed the number of
\* tokens the parser has taken, program whether a Program was returned,
\* kinds who recorded each error of the list
NoParse ==
    [pc |-> "idle", idx |-> 0, tok |-> "", at |-> 0, consumed |-> 0,
     program |-> FALSE, kinds |-> <<>>]

ErrIdle ==
    /\ str = <<>>
    /\ errors = <<>>
    /\ addArgs = NoArgs
    /\ errCall = NoErrCall
    /\ parse = NoParse
SerIdle == node = Nil /\ out = <<>> /\ serPc = "ready"
PoolIdle == serializerPool = {} /\ buffers = <<>> /\ calls = <<>>
NoResult == [t |-> "none"]
NoHeap == [trees |-> 0, resolved |-> <<>>]
GoIdle ==
    /\ goArgs = <<>>
    /\ goPanic = "none"
    /\ goTrace = <<>>
    /\ goResult = NoResult
    /\ goHeap = NoHeap
ResIdle == tree = Nil /\ resPc = "parsed"
StrIdle == strFn = "none" /\ strArg = <<>> /\ strOut = <<>>
NoOutcome ==
    [op |-> "none", ret |-> "", kind |-> "", msg |-> "", callee |-> "none",
     ready |-> FALSE, avail |-> FALSE]
JsFresh ==
    /\ goFastParse = 0
    /\ globalGoFastParse = 0
    /\ initialized = FALSE
    /\ initPromise = 0
    /\ promises = <<>>
    /\ runs = 0
    /\ tornDown = FALSE
    /\ ready = FALSE
    /\ last = NoOutcome
JsIdle == wrapper = "none" /\ pending = <<>> /\ JsFresh

(***************************************************************************)
(* Text that the code formats.                                             *)
(***************************************************************************)
\* the bytes of s, a run of plain characters: none is a quote, a backslash
\* or a control character
T(s) == [k |-> "text", lit |-> s, b |-> 0]

Digits == <<"0", "1", "2", "3", "4", "5", "6", "7", "8", "9">>

\* the decimal text of n >= 0
RECURSIVE DecimalText(_)
DecimalText(n) ==
    IF n < 10 THEN Digits[n + 1]
    ELSE DecimalText(n \div 10) \o Digits[(n % 10) + 1]

\* strconv.Itoa(n), and what fmt's %d prints
Itoa(n) == IF n < 0 THEN "-" \o DecimalText(0 - n) ELSE DecimalText(n)

(***************************************************************************)
(*                        PARSER ERROR COLLECTOR                           *)
(***************************************************************************)

\* The loop of positionToLineColumn: the state after the iterations i..,
\* entered with (line, col); the third component is i at the exit, the
\* number of bytes src[i] that the loop has read.
RECURSIVE plcLoop(_, _, _, _, _)
plcLoop(src, offset, i, line, col) ==
    IF i < offset /\ i < Len(src)
    THEN IF src[i + 1] = NL
         THEN plcLoop(src, offset, i + 1, line + 1, 1)
         ELSE plcLoop(src, offset, i + 1, line, col + 1)
    ELSE <<line, col, i>>

\* a version that forgets to restart the column after a line break
positionToLineColumn_noReset(src, offset) ==
    <<plcLoop(src, offset, 0, 1, 1)[1], 1 + Min(offset, Len(src))>>

positionToLineColumn(src, offset) ==
    <<plcLoop(src, offset, 0, 1, 1)[1], plcLoop(src, offset, 0, 1, 1)[2]>>

\* the bytes of src that one call of positionToLineColumn reads
positionToLineColumn_reads(src, offset) == plcLoop(src, offset, 0, 1, 1)[3]

SyntaxError(msg, line, col, offset) ==
    [Message |-> msg, Line |-> line, Column |-> col, Offset |-> offset]

\* a version that puts the new record in front of the list
ErrorList_Add_front(e, src, idx, msg) ==
    LET offset == IF idx - 1 < 0 THEN 0 ELSE idx - 1
    IN  <<SyntaxError(msg, plcLoop(src, offset, 0, 1, 1)[1],
                      plcLoop(src, offset, 0, 1, 1)[2], offset)>> \o e

\* (e *ErrorList).Add(src, idx, msg): the list after the call
ErrorList_Add(e, src, idx, msg) ==
    LET offset == IF idx - 1 < 0 THEN 0 ELSE idx - 1
        lc == positionToLineColumn(src, offset)
    IN  Append(e, SyntaxError(msg, lc[1], lc[2], offset))

\* a version of Add that keeps the offset and leaves the scan for later
ErrorList_Add_reads_none(src, idx) == positionToLineColumn_reads(src, 0)

\* the bytes of src that Add reads: those of its positionToLineColumn call
ErrorList_Add_reads(src, idx) ==
    positionToLineColumn_reads(src, IF idx - 1 < 0 THEN 0 ELSE idx - 1)

\* (e *SyntaxError).Error()
SyntaxError_Error(e) ==
    <<T(e.Message), T(" (line "), T(Itoa(e.Line)), T(", column "),
      T(Itoa(e.Column)), T(")")>>

\* a version that summarizes the list by its most recent record
ErrorList_Error_last(e) ==
    CASE Len(e) = 0 -> <<T("no errors")>>
      [] Len(e) = 1 -> SyntaxError_Error(e[1])
      [] OTHER -> SyntaxError_Error(e[Len(e)])
                    \o <<T(" (and "), T(Itoa(Len(e) - 1)), T(" more errors)")>>

\* (e *ErrorList).Error()
ErrorList_Error(e) ==
    CASE Len(e) = 0 -> <<T("no errors")>>
      [] Len(e) = 1 -> SyntaxError_Error(e[1])
      [] OTHER -> SyntaxError_Error(e[1])
                    \o <<T(" (and "), T(Itoa(Len(e) - 1)), T(" more errors)")>>

\* (e *ErrorList).Err(): nil (FALSE) exactly for the empty list
ErrorList_Err(e) == Len(e) # 0

Sources ==
    UNION { [1..n -> {NL, 97}] : n \in 0..MaxSrcLen }

Messages == {"Unexpected identifier", "Unexpected end of input"}

\* idx ranges past the end of the source: len+1 is the position of Eof
IdxRange == 0..(MaxSrcLen + 2)

Add(idx, msg) ==
    /\ Len(errors) < MaxErrors
    /\ errors' = ErrorList_Add(errors, str, idx, msg)
    /\ addArgs' = [idx |-> idx, msg |-> msg, src |-> str]
    /\ errCall' = [NoErrCall EXCEPT !.op = "Add",
                                    !.reads = ErrorList_Add_reads(str, idx)]
    /\ UNCHANGED <<str, parse, notErrVars>>

AddError == \E idx \in IdxRange, msg \in Messages : Add(idx, msg)

\* a call of (e *ErrorList).Error(): it formats the fields of the first
\* record and reads no byte of the source
Error ==
    /\ errCall' = [NoErrCall EXCEPT !.op = "Error",
                                    !.text = ErrorList_Error(errors)]
    /\ UNCHANGED <<str, errors, addArgs, parse, notErrVars>>

\* a call of (e *ErrorList).Err()
Err ==
    /\ errCall' = [NoErrCall EXCEPT !.op = "Err",
                                    !.isNil = ~ErrorList_Err(errors)]
    /\ UNCHANGED <<str, errors, addArgs, parse, notErrVars>>

InitErrors ==
    /\ StrIdle
    /\ str \in Sources
    /\ errors = <<>>
    /\ addArgs = NoArgs
    /\ errCall = NoErrCall
    /\ parse = NoParse
    /\ SerIdle
    /\ PoolIdle
    /\ GoIdle
    /\ ResIdle
    /\ JsIdle

NextErrors == AddError \/ Error \/ Err

SpecErrors == InitErrors /\ [][NextErrors]_vars

(***************************************************************************)
(* The parser's error functions.  Package token is outside the modelled    *)
(* files: a token kind is its name, and token_String gives its text.       *)
(***************************************************************************)
errUnexpectedToken == "Unexpected token "
errUnexpectedEndOfInput == "Unexpected end of input"

Tokens ==
    {"Eof", "Illegal", "Identifier", "Keyword", "EscapedReservedWord", "Number",
     "String", "Boolean", "Null", "Semicolon", "LeftParenthesis", "Arrow"}

\* tkn.String()
token_String(tkn) ==
    CASE tkn = "Eof" -> "EOF"
      [] tkn = "Illegal" -> "ILLEGAL"
      [] tkn = "Identifier" -> "IDENTIFIER"
      [] tkn = "Keyword" -> "KEYWORD"
      [] tkn = "EscapedReservedWord" -> "ESCAPED_RESERVED_WORD"
      [] tkn = "Number" -> "NUMBER"
      [] tkn = "String" -> "STRING"
      [] tkn = "Boolean" -> "BOOLEAN"
      [] tkn = "Null" -> "NULL"
      [] tkn = "Semicolon" -> ";"
      [] tkn = "LeftParenthesis" -> "("
      [] tkn = "Arrow" -> "=>"

\* p.literal while tkn is the current token
LiteralsOf(tkn) ==
    CASE tkn = "Boolean" -> {"true", "false"}
      [] tkn = "Null" -> {"null"}
      [] tkn \in {"Identifier", "Keyword", "EscapedReservedWord"} -> {"a"}
      [] OTHER -> {""}

\* p.error(msg): the list after the call, the error it returns and the
\* arguments it gave to Add
parser_error(e, src, idx, msg) ==
    LET added == ErrorList_Add(e, src, idx, msg)
    IN  [errors |-> added,
         ret |-> added[Len(added)],
         add |-> [idx |-> idx, msg |-> msg, src |-> src]]

\* a version that prints the kind of a true, false or null token
errorUnexpectedToken_kindText(e, src, idx, literal, tkn) ==
    IF tkn = "Eof" THEN parser_error(e, src, idx, errUnexpectedEndOfInput)
    ELSE CASE tkn = "Identifier" -> parser_error(e, src, idx, "Unexpected identifier")
           [] tkn = "Keyword" -> parser_error(e, src, idx, "Unexpected reserved word")
           [] tkn = "EscapedReservedWord" ->
                parser_error(e, src, idx, "Keyword must not contain escaped characters")
           [] tkn = "Number" -> parser_error(e, src, idx, "Unexpected number")
           [] tkn = "String" -> parser_error(e, src, idx, "Unexpected string")
           [] OTHER -> parser_error(e, src, idx, errUnexpectedToken \o token_String(tkn))

\* p.errorUnexpectedToken(tkn), with p.errors = e, p.str = src, p.idx = idx
\* and p.literal = literal
errorUnexpectedToken(e, src, idx, literal, tkn) ==
    IF tkn = "Eof" THEN parser_error(e, src, idx, errUnexpectedEndOfInput)
    ELSE LET value == IF tkn \in {"Boolean", "Null"} THEN literal
                      ELSE token_String(tkn)
         IN  CASE tkn = "Identifier" -> parser_error(e, src, idx, "Unexpected identifier")
               [] tkn = "Keyword" -> parser_error(e, src, idx, "Unexpected reserved word")
               [] tkn = "EscapedReservedWord" ->
                    parser_error(e, src, idx, "Keyword must not contain escaped characters")
               [] tkn = "Number" -> parser_error(e, src, idx, "Unexpected number")
               [] tkn = "String" -> parser_error(e, src, idx, "Unexpected string")
               [] OTHER -> parser_error(e, src, idx, errUnexpectedToken \o value)

\* sources of the parser's runs: `a`, a line break, `a`
ParserSources == {<<97, NL, 97>>, <<97>>}

ErrorUnexpectedToken(idx, tkn, literal) ==
    /\ Len(errors) < MaxErrors
    /\ LET r == errorUnexpectedToken(errors, str, idx, literal, tkn)
       IN  /\ errors' = r.errors
           /\ addArgs' = r.add
           /\ errCall' = [NoErrCall EXCEPT !.op = "errorUnexpectedToken",
                                           !.ret = r.ret,
                                           !.reads = ErrorList_Add_reads(str, idx),
                                           !.tkn = tkn,
                                           !.literal = literal]
    /\ UNCHANGED <<str, parse, notErrVars>>

UnexpectedToken ==
    \E idx \in 1..(Len(str) + 1), tkn \in Tokens :
        \E literal \in LiteralsOf(tkn) : ErrorUnexpectedToken(idx, tkn, literal)

InitParser ==
    /\ StrIdle
    /\ str \in ParserSources
    /\ errors = <<>>
    /\ addArgs = NoArgs
    /\ errCall = NoErrCall
    /\ parse = NoParse
    /\ SerIdle
    /\ PoolIdle
    /\ GoIdle
    /\ ResIdle
    /\ JsIdle

NextParser == UnexpectedToken

SpecParser == InitParser /\ [][NextParser]_vars

(***************************************************************************)
(* One run of the parser.  The tokenizer and the parser's productions are  *)
(* outside the modelled files; the run is the one the specification        *)
(* describes: the tokenizer reports an illegal byte and hands on an        *)
(* Illegal token, the parser takes tokens until one is unexpected, and     *)
(* the first unexpected token ends the run.  A token is one byte.          *)
(***************************************************************************)
\* p.errorUnexpected(chr): chr is -1 at the end of the input
errorUnexpected(e, src, idx, chr) ==
    IF chr = 0 - 1 THEN parser_error(e, src, idx, errUnexpectedEndOfInput)
    ELSE parser_error(e, src, idx, errUnexpectedToken \o token_String("Illegal"))

\* the bytes that begin no token
IsIllegalByte(c) == c \notin {97, NL, SPACE}

IllegalBytesIn(src) == Cardinality({i \in 1..Len(src) : IsIllegalByte(src[i])})

\* sources over `a`, a line break and `@` that leave room in the list for
\* a syntax error
ParseSources ==
    {src \in UNION { [1..n -> {97, NL, 64}] : n \in 0..MaxSrcLen } :
        IllegalBytesIn(src) < MaxErrors}

\* a version that goes on with the next token after an unexpected one
parser_abort_resynchronizes(run) == [run EXCEPT !.pc = "scan"]

\* the run after the parser has reported an unexpected token
parser_abort(run) == [run EXCEPT !.pc = "failed"]

\* the tokenizer scans the next token
Scan ==
    /\ parse.pc = "scan"
    /\ IF parse.idx > Len(str)
       THEN /\ parse' = [parse EXCEPT !.pc = "parse", !.tok = "Eof", !.at = parse.idx]
            /\ UNCHANGED <<errors, addArgs, errCall>>
       ELSE IF IsIllegalByte(str[parse.idx])
       THEN LET r == errorUnexpected(errors, str, parse.idx, str[parse.idx])
            IN  /\ errors' = r.errors
                /\ addArgs' = r.add
                /\ errCall' = [NoErrCall EXCEPT
                                    !.op = "errorUnexpected",
                                    !.ret = r.ret,
                                    !.reads = ErrorList_Add_reads(str, parse.idx)]
                /\ parse' = [parse EXCEPT !.pc = "parse", !.tok = "Illegal",
                                          !.at = parse.idx, !.idx = @ + 1,
                                          !.kinds = Append(@, "lexical")]
       ELSE /\ parse' = [parse EXCEPT !.pc = "parse", !.tok = "Identifier",
                                      !.at = parse.idx, !.idx = @ + 1]
            /\ UNCHANGED <<errors, addArgs, errCall>>
    /\ UNCHANGED <<str, notErrVars>>

\* the parser takes the current token
Consume ==
    /\ parse.pc = "parse"
    /\ parse.tok # "Eof"
    /\ parse' = [parse EXCEPT !.pc = "scan", !.consumed = @ + 1]
    /\ UNCHANGED <<str, errors, addArgs, errCall, notErrVars>>

\* the parser finds the current token unexpected
Unexpected ==
    /\ parse.pc = "parse"
    /\ LET r == errorUnexpectedToken(errors, str, parse.at, "", parse.tok)
       IN  /\ errors' = r.errors
           /\ addArgs' = r.add
           /\ errCall' = [NoErrCall EXCEPT
                               !.op = "errorUnexpectedToken",
                               !.ret = r.ret,
                               !.reads = ErrorList_Add_reads(str, parse.at),
                               !.tkn = parse.tok]
    /\ parse' = parser_abort([parse EXCEPT !.kinds = Append(@, "syntax")])
    /\ UNCHANGED <<str, notErrVars>>

\* the parser has reached the end of the input: ParseFile returns, with
\* the Program when the list is empty
ParseReturns ==
    /\ parse.pc = "parse"
    /\ parse.tok = "Eof"
    /\ parse' = [parse EXCEPT !.pc = "done", !.program = (errors = <<>>)]
    /\ UNCHANGED <<str, errors, addArgs, errCall, notErrVars>>

InitParse ==
    /\ StrIdle
    /\ str \in ParseSources
    /\ errors = <<>>
    /\ addArgs = NoArgs
    /\ errCall = NoErrCall
    /\ parse = [NoParse EXCEPT !.pc = "scan", !.idx = 1]
    /\ SerIdle
    /\ PoolIdle
    /\ GoIdle
    /\ ResIdle
    /\ JsIdle

NextParse == Scan \/ Consume \/ Unexpected \/ ParseReturns

SpecParse == InitParse /\ [][NextParse]_vars

\* a syntax error is in the list
SyntaxErrorRecorded == \E i \in 1..Len(parse.kinds) : parse.kinds[i] = "syntax"

\* C14: the first syntax error that the parser records ends the run: after
\* it no token is consumed, no error is appended and no Program is
\* returned, and the list is the lexical errors the tokenizer recorded
\* before it followed by that one syntax error as its last record.
C14_FirstSyntaxErrorEndsRun ==
    [][/\ SyntaxErrorRecorded => (errors' = errors /\ parse' = parse)
       /\ SyntaxErrorRecorded' =>
            /\ Len(parse'.kinds) = Len(errors')
            /\ parse'.kinds[Len(errors')] = "syntax"
            /\ \A i \in 1..(Len(errors') - 1) : parse'.kinds[i] = "lexical"
            /\ ~parse'.program
            /\ parse'.pc = "failed"]_vars

\* a run that ended on a syntax error after the tokenizer had recorded a
\* lexical error and the parser had consumed a token
C14_Witness ==
    /\ parse.pc = "failed"
    /\ parse.kinds = <<"lexical", "syntax">>
    /\ Len(errors) = 2
    /\ parse.consumed >= 1
    /\ parse.idx <= Len(str)

\* the message the kind of a token calls for
UnexpectedMessage(tkn, literal) ==
    CASE tkn = "Eof" -> "Unexpected end of input"
      [] tkn = "Identifier" -> "Unexpected identifier"
      [] tkn = "Keyword" -> "Unexpected reserved word"
      [] tkn = "EscapedReservedWord" -> "Keyword must not contain escaped characters"
      [] tkn = "Number" -> "Unexpected number"
      [] tkn = "String" -> "Unexpected string"
      [] tkn \in {"Boolean", "Null"} -> "Unexpected token " \o literal
      [] OTHER -> "Unexpected token " \o token_String(tkn)

\* C12: for every token kind errorUnexpectedToken appends exactly one record
\* to the error list and returns that record, and the record's message is
\* fixed by the kind: "Unexpected end of input" for Eof, "Unexpected
\* identifier", "Unexpected reserved word", "Keyword must not contain
\* escaped characters", "Unexpected number", "Unexpected string", for
\* Boolean and Null "Unexpected token " and the current literal, and for
\* every other kind "Unexpected token " and the token's own text.
C12_UnexpectedTokenAppendsOneRecord ==
    [][errCall'.op = "errorUnexpectedToken" =>
          /\ Len(errors') = Len(errors) + 1
          /\ SubSeq(errors', 1, Len(errors)) = errors
          /\ errCall'.ret = errors'[Len(errors')]
          /\ errCall'.ret.Message = UnexpectedMessage(errCall'.tkn, errCall'.literal)
          /\ errCall'.ret.Offset = addArgs'.idx - 1]_vars

\* an unexpected `false` has been reported after an earlier error
C12_Witness ==
    /\ errCall.op = "errorUnexpectedToken"
    /\ errCall.tkn = "Boolean"
    /\ errCall.literal = "false"
    /\ Len(errors) = 2
    /\ errors[2].Message = "Unexpected token false"

\* ---- what line and column mean, said without the loop
Prefix(src, offset) == SubSeq(src, 1, Min(offset, Len(src)))
NewlinesIn(s) == Cardinality({i \in 1..Len(s) : s[i] = NL})
LastNewline(s) ==
    IF \E i \in 1..Len(s) : s[i] = NL
    THEN CHOOSE i \in 1..Len(s) : s[i] = NL /\ \A j \in (i + 1)..Len(s) : s[j] # NL
    ELSE 0

\* C10: ErrorList.Add(src, idx, msg) with idx >= 1 appends a record whose
\* Offset is idx - 1, whose Line is 1 + the number of '\n' bytes in the
\* prefix src[0:Offset] and whose Column is 1 + the number of bytes of that
\* prefix after its last '\n' (after the start of src when it has none); an
\* Offset past the end of src takes the whole of src as the prefix.
C10_AddRecordsOffsetLineColumn ==
    (Len(errors) > 0 /\ addArgs.idx >= 1) =>
        LET e == errors[Len(errors)]
            p == Prefix(addArgs.src, e.Offset)
        IN  /\ e.Offset = addArgs.idx - 1
            /\ e.Message = addArgs.msg
            /\ e.Line = 1 + NewlinesIn(p)
            /\ e.Column = 1 + (Len(p) - LastNewline(p))

\* the text of a sequence of pieces that are runs of plain characters
RECURSIVE Flat(_)
Flat(ps) == IF ps = <<>> THEN "" ELSE ps[1].lit \o Flat(Tail(ps))

\* "<message> (line L, column C)"
FirstErrorText(r) ==
    r.Message \o " (line " \o Itoa(r.Line) \o ", column " \o Itoa(r.Column) \o ")"

\* C11: ErrorList.Error() on a list of n errors returns "no errors" for
\* n = 0, the first error's text "<message> (line L, column C)" for n = 1,
\* and that text followed by " (and n-1 more errors)" for n >= 2: a function
\* of the first record and of the length of the list alone.
C11_ErrorSummarizesFirstAndCount ==
    errCall.op = "Error" =>
        Flat(errCall.text) =
            IF Len(errors) = 0 THEN "no errors"
            ELSE IF Len(errors) = 1 THEN FirstErrorText(errors[1])
            ELSE FirstErrorText(errors[1]) \o " (and " \o Itoa(Len(errors) - 1)
                     \o " more errors)"

\* Error() has summarized a list of two errors that differ in message and
\* in position
C11_Witness ==
    /\ errCall.op = "Error"
    /\ Len(errors) >= 2
    /\ errors[1].Message # errors[2].Message
    /\ errors[1].Line # errors[2].Line
    /\ errors[1].Column # errors[2].Column

\* C18: the error list is append-only: Error and Err leave it unchanged,
\* Add appends exactly one record at the end, no step changes, reorders or
\* removes a record that is in the list, so its length never decreases;
\* and Err returns nil exactly when no Add has happened.
C18_ErrorListIsAppendOnly ==
    [][/\ Len(errors') >= Len(errors)
       /\ SubSeq(errors', 1, Len(errors)) = errors
       /\ errCall'.op \in {"Error", "Err"} => errors' = errors
       /\ errCall'.op = "Add" => Len(errors') = Len(errors) + 1
       /\ errCall'.op = "Err" => (errCall'.isNil <=> addArgs' = NoArgs)]_vars

\* Err has returned the list after two Add calls with different records
C18_Witness ==
    /\ errCall.op = "Err"
    /\ ~errCall.isNil
    /\ Len(errors) = 2
    /\ errors[1] # errors[2]

\* C19 as stated: the collector converts a byte offset to line/column
\* lazily at report time: recording an error with Add scans no byte of the
\* source, and the prefix of the source is scanned when the error is
\* rendered by Error().
C19_ConversionIsLazy ==
    /\ errCall.op = "Add" => errCall.reads = 0
    /\ (errCall.op = "Error" /\ Len(errors) > 0) =>
            errCall.reads = Min(errors[1].Offset, Len(str))

\* C19 amended: the collector converts a byte offset to line/column when
\* the error is recorded: Add scans the prefix src[0:min(Offset, len(src))]
\* once and stores Line and Column in the record, and rendering the error
\* with Error() scans no byte of the source.
C19_ConversionAtRecordTime ==
    /\ errCall.op = "Add" =>
            /\ errCall.reads = Min(errors[Len(errors)].Offset, Len(addArgs.src))
            /\ errors[Len(errors)].Line
                    = 1 + NewlinesIn(Prefix(addArgs.src, errors[Len(errors)].Offset))
    /\ errCall.op = "Error" => errCall.reads = 0

\* Add has scanned two bytes of the source for an error on its second line
C19_Witness ==
    /\ errCall.op = "Add"
    /\ errCall.reads = 2
    /\ errors[Len(errors)].Line = 2

\* an error on the second line, past the first column, has been recorded
C10_Witness ==
    /\ Len(errors) > 0
    /\ addArgs.idx >= 1
    /\ errors[Len(errors)].Line = 2
    /\ errors[Len(errors)].Column = 2
    /\ errors[Len(errors)].Offset = 2


(***************************************************************************)
(*                               AST NODES                                 *)
(* Package ast is outside the modelled files; a node is a record holding   *)
(* the fields the serializer reads, and idx0/idx1 hold what its Idx0() and *)
(* Idx1() return.  A nil pointer or nil interface is Nil.                  *)
(***************************************************************************)
Identifier(name, sc, i0, i1) ==
    [kind |-> "Identifier", Name |-> name, ScopeContext |-> sc,
     idx0 |-> i0, idx1 |-> i1]

\* Value is a float64: an integral value, a fraction, or an infinity
IntValue(n) == [class |-> "int", n |-> n, text |-> ""]
FracValue(t) == [class |-> "frac", n |-> 0, text |-> t]
PosInf == [class |-> "inf", n |-> 0, text |-> ""]

NumberLiteral(val, rawSet, raw, i0, i1) ==
    [kind |-> "NumberLiteral", Value |-> val, RawSet |-> rawSet, Raw |-> raw,
     idx0 |-> i0, idx1 |-> i1]

StringLiteral(val, rawSet, raw, i0, i1) ==
    [kind |-> "StringLiteral", Value |-> val, RawSet |-> rawSet, Raw |-> raw,
     idx0 |-> i0, idx1 |-> i1]

ExpressionStatement(expr, i0, i1) ==
    [kind |-> "ExpressionStatement", Expression |-> expr, idx0 |-> i0, idx1 |-> i1]

EmptyStatement(i0, i1) == [kind |-> "EmptyStatement", idx0 |-> i0, idx1 |-> i1]

BlockStatement(list, sc, i0, i1) ==
    [kind |-> "BlockStatement", List |-> list, ScopeContext |-> sc,
     idx0 |-> i0, idx1 |-> i1]

ReturnStatement(arg, i0, i1) ==
    [kind |-> "ReturnStatement", Argument |-> arg, idx0 |-> i0, idx1 |-> i1]

\* a parameter or a declarator: Target is the binding target, Initializer
\* the default value or Nil
VariableDeclarator(target, initializer, i0, i1) ==
    [kind |-> "VariableDeclarator", Target |-> target, Initializer |-> initializer,
     idx0 |-> i0, idx1 |-> i1]

VariableDeclaration(tok, list, i0, i1) ==
    [kind |-> "VariableDeclaration", Token |-> tok, List |-> list,
     idx0 |-> i0, idx1 |-> i1]

ParameterList(list, rest) == [List |-> list, Rest |-> rest]

FunctionLiteral(name, params, body, generator, async, sc, i0, i1) ==
    [kind |-> "FunctionLiteral", Name |-> name, ParameterList |-> params,
     Body |-> body, Generator |-> generator, Async |-> async,
     ScopeContext |-> sc, idx0 |-> i0, idx1 |-> i1]

FunctionDeclaration(fn) ==
    [kind |-> "FunctionDeclaration", Function |-> fn,
     idx0 |-> fn.idx0, idx1 |-> fn.idx1]

\* Elements holds expressions, Nil for a hole; Rest is an expression or Nil
ArrayPattern(elements, rest, i0, i1) ==
    [kind |-> "ArrayPattern", Elements |-> elements, Rest |-> rest,
     idx0 |-> i0, idx1 |-> i1]

\* Idx0() is Case; Idx1() is the end of the last consequent statement
CaseStatement(case, test, consequent) ==
    [kind |-> "CaseStatement", Case |-> case, Test |-> test,
     Consequent |-> consequent]

SwitchStatement(disc, body, i0, i1) ==
    [kind |-> "SwitchStatement", Discriminant |-> disc, Body |-> body,
     idx0 |-> i0, idx1 |-> i1]

FieldDefinition(key, initializer, computed, static, i0, i1) ==
    [kind |-> "FieldDefinition", Key |-> key, Initializer |-> initializer,
     Computed |-> computed, Static |-> static, idx0 |-> i0, idx1 |-> i1]

ClassLiteral(name, super, body, i0, i1) ==
    [kind |-> "ClassLiteral", Name |-> name, SuperClass |-> super, Body |-> body,
     idx0 |-> i0, idx1 |-> i1]

ClassDeclaration(class) ==
    [kind |-> "ClassDeclaration", Class |-> class,
     idx0 |-> class.idx0, idx1 |-> class.idx1]

\* Idx0()/Idx1() are those of the first and the last statement of Body
Program(body) == [kind |-> "Program", Body |-> body]

\* the value a panicking Idx0()/Idx1() never returns
PanicIdx == 0 - 1

Idx0(n) ==
    CASE n.kind = "Program" ->
            IF Len(n.Body) = 0 THEN PanicIdx ELSE n.Body[1].idx0
      [] n.kind = "CaseStatement" -> n.Case
      [] OTHER -> n.idx0

Idx1(n) ==
    CASE n.kind = "Program" ->
            IF Len(n.Body) = 0 THEN PanicIdx ELSE n.Body[Len(n.Body)].idx1
      [] n.kind = "CaseStatement" ->
            IF Len(n.Consequent) = 0 THEN PanicIdx
            ELSE n.Consequent[Len(n.Consequent)].idx1
      [] OTHER -> n.idx1

(***************************************************************************)
(*                              SERIALIZER                                 *)
(* Every write appends to s.out, so a visit is the sequence of pieces it   *)
(* appends.                                                                *)
(***************************************************************************)
L(s) == [k |-> "raw", lit |-> s, b |-> 0]      \* the bytes of s
S(s) == [k |-> "str", lit |-> s, b |-> 0]      \* the bytes of s between quotes
B(c) == [k |-> "byte", lit |-> "", b |-> c]    \* the byte c

LB == L("{")
RB == L("}")
LK == L("[")
RK == L("]")
CM == L(",")
CL == L(":")

\* {"type":"<t>"
TypeOpen(t) == <<LB, S("type"), CL, S(t)>>
\* ,"<k>":
Field(k) == <<CM, S(k), CL>>

writeNull == <<L("null")>>
writeBool(b) == IF b THEN <<L("true")>> ELSE <<L("false")>>

smallInts(n) == DecimalText(n)

writeInt(n) == IF n >= 0 /\ n < 100 THEN <<L(smallInts(n))>> ELSE <<L(Itoa(n))>>
writeInt64(n) == IF n >= 0 /\ n < 100 THEN <<L(smallInts(n))>> ELSE <<L(Itoa(n))>>

\* strconv.FormatFloat(n, 'f', -1, 64) of a value that is not an integer
FormatFloat(v) == IF v.class = "inf" THEN "+Inf" ELSE v.text

\* the fast path takes the values n == float64(int64(n)) within +-1e15
writeNumber(v) ==
    IF v.class = "int" THEN writeInt64(v.n) ELSE <<L(FormatFloat(v))>>

\* "0123456789abcdef"[n]
HexDigit(n) == IF n < 10 THEN 48 + n ELSE 87 + n

\* a version whose default case copies every byte, control bytes too
EscapeByte_copiesControl(c) ==
    CASE c = QUOTE -> <<L("\\\"")>>
      [] c = BACKSLASH -> <<L("\\\\")>>
      [] c = NL -> <<L("\\n")>>
      [] c = CR -> <<L("\\r")>>
      [] c = TAB -> <<L("\\t")>>
      [] OTHER -> <<B(c)>>

\* the pieces writeString appends for one byte
EscapeByte(c) ==
    CASE c = QUOTE -> <<L("\\\"")>>
      [] c = BACKSLASH -> <<L("\\\\")>>
      [] c = NL -> <<L("\\n")>>
      [] c = CR -> <<L("\\r")>>
      [] c = TAB -> <<L("\\t")>>
      [] OTHER ->
            IF c < SPACE
            THEN <<L("\\u00"), B(HexDigit(c \div 16)), B(HexDigit(c % 16))>>
            ELSE <<B(c)>>

RECURSIVE EscapeFrom(_, _)
EscapeFrom(s, i) ==
    IF i > Len(s) THEN <<>> ELSE EscapeByte(s[i]) \o EscapeFrom(s, i + 1)

writeString(s) == <<B(QUOTE)>> \o EscapeFrom(s, 1) \o <<B(QUOTE)>>

\* a string of bytes, one piece per byte
Bytes(s) == [i \in 1..Len(s) |-> B(s[i])]

\* the keys of operatorStrings
OperatorTokens ==
    {"Plus", "Minus", "Multiply", "Exponent", "Slash", "Remainder", "And",
     "Or", "ExclusiveOr", "ShiftLeft", "ShiftRight", "UnsignedShiftRight",
     "LogicalAnd", "LogicalOr", "Coalesce", "Equal", "StrictEqual",
     "NotEqual", "StrictNotEqual", "Less", "Greater", "LessOrEqual",
     "GreaterOrEqual", "Increment", "Decrement", "Not", "BitwiseNot",
     "Typeof", "Void", "Delete", "In", "InstanceOf", "Assign", "AddAssign",
     "SubtractAssign", "MultiplyAssign", "ExponentAssign",
     "QuotientAssign", "RemainderAssign", "AndAssign", "OrAssign",
     "ExclusiveOrAssign", "ShiftLeftAssign", "ShiftRightAssign",
     "UnsignedShiftRightAssign"}

\* operatorStrings[t] without its quotes, as bytes
operatorStrings(t) ==
    CASE t = "Plus" -> <<43>>
      [] t = "Minus" -> <<45>>
      [] t = "Multiply" -> <<42>>
      [] t = "Exponent" -> <<42, 42>>
      [] t = "Slash" -> <<47>>
      [] t = "Remainder" -> <<37>>
      [] t = "And" -> <<38>>
      [] t = "Or" -> <<124>>
      [] t = "ExclusiveOr" -> <<94>>
      [] t = "ShiftLeft" -> <<60, 60>>
      [] t = "ShiftRight" -> <<62, 62>>
      [] t = "UnsignedShiftRight" -> <<62, 62, 62>>
      [] t = "LogicalAnd" -> <<38, 38>>
      [] t = "LogicalOr" -> <<124, 124>>
      [] t = "Coalesce" -> <<63, 63>>
      [] t = "Equal" -> <<61, 61>>
      [] t = "StrictEqual" -> <<61, 61, 61>>
      [] t = "NotEqual" -> <<33, 61>>
      [] t = "StrictNotEqual" -> <<33, 61, 61>>
      [] t = "Less" -> <<60>>
      [] t = "Greater" -> <<62>>
      [] t = "LessOrEqual" -> <<60, 61>>
      [] t = "GreaterOrEqual" -> <<62, 61>>
      [] t = "Increment" -> <<43, 43>>
      [] t = "Decrement" -> <<45, 45>>
      [] t = "Not" -> <<33>>
      [] t = "BitwiseNot" -> <<126>>
      [] t = "Typeof" -> <<116, 121, 112, 101, 111, 102>>
      [] t = "Void" -> <<118, 111, 105, 100>>
      [] t = "Delete" -> <<100, 101, 108, 101, 116, 101>>
      [] t = "In" -> <<105, 110>>
      [] t = "InstanceOf" -> <<105, 110, 115, 116, 97, 110, 99, 101, 111, 102>>
      [] t = "Assign" -> <<61>>
      [] t = "AddAssign" -> <<43, 61>>
      [] t = "SubtractAssign" -> <<45, 61>>
      [] t = "MultiplyAssign" -> <<42, 61>>
      [] t = "ExponentAssign" -> <<42, 42, 61>>
      [] t = "QuotientAssign" -> <<47, 61>>
      [] t = "RemainderAssign" -> <<37, 61>>
      [] t = "AndAssign" -> <<38, 61>>
      [] t = "OrAssign" -> <<124, 61>>
      [] t = "ExclusiveOrAssign" -> <<94, 61>>
      [] t = "ShiftLeftAssign" -> <<60, 60, 61>>
      [] t = "ShiftRightAssign" -> <<62, 62, 61>>
      [] t = "UnsignedShiftRightAssign" -> <<62, 62, 62, 61>>

\* t.String() of a token: the text operatorStrings caches for an operator,
\* "," and "=>" for two tokens that the table does not hold
token_Text(t) ==
    CASE t = "Comma" -> <<44>>
      [] t = "Arrow" -> <<61, 62>>
      [] OTHER -> operatorStrings(t)

writeOperator(t) ==
    IF t \in OperatorTokens
    THEN <<B(QUOTE)>> \o Bytes(operatorStrings(t)) \o <<B(QUOTE)>>
    ELSE writeString(token_Text(t))

\* a version that adds 1 nowhere: the 1-based Idx goes out as it is
toESTreePos_noShift(pos) == pos

toESTreePos(pos) == IF pos = 0 THEN 0 ELSE pos - 1

writePosition(n) ==
    <<S("start"), CL>> \o writeInt(toESTreePos(Idx0(n)))
        \o Field("end") \o writeInt(toESTreePos(Idx1(n)))

writePositionStartOnly(start) == <<S("start"), CL>> \o writeInt(toESTreePos(start))

\* token.Token.String() of the declaration keywords
TokenString(tok) ==
    CASE tok = "var" -> <<118, 97, 114>>
      [] tok = "let" -> <<108, 101, 116>>
      [] tok = "const" -> <<99, 111, 110, 115, 116>>

\* the writes of `for i, x := range list { if i > 0 { "," }; <write x> }`,
\* given what is written for each x
RECURSIVE CommasFrom(_, _)
CommasFrom(parts, i) ==
    IF i > Len(parts) THEN <<>>
    ELSE (IF i > 1 THEN <<CM>> ELSE <<>>) \o parts[i] \o CommasFrom(parts, i + 1)

Commas(parts) == CommasFrom(parts, 1)

RECURSIVE serialize(_)
RECURSIVE VisitWith(_)

\* a version that writes the position whatever the body holds
VisitProgram_alwaysPosition(n) ==
    <<LB, S("type"), CL, S("Program"), CM, S("body"), CL, LK>>
        \o Commas([i \in 1..Len(n.Body) |-> serialize(n.Body[i])])
        \o <<RK, CM>> \o writePosition(n) \o <<RB>>

VisitProgram(n) ==
    <<LB, S("type"), CL, S("Program"), CM, S("body"), CL, LK>>
        \o Commas([i \in 1..Len(n.Body) |-> serialize(n.Body[i])])
        \o <<RK>>
        \o (IF Len(n.Body) > 0 THEN <<CM>> \o writePosition(n) ELSE <<>>)
        \o <<RB>>

\* a version that writes the stamp whatever its value
VisitIdentifier_alwaysStamp(n) ==
    TypeOpen("Identifier") \o Field("name") \o writeString(n.Name)
        \o Field("scopeContext") \o writeInt(n.ScopeContext)
        \o <<CM>> \o writePosition(n) \o <<RB>>

VisitIdentifier(n) ==
    TypeOpen("Identifier") \o Field("name") \o writeString(n.Name)
        \o (IF n.ScopeContext # 0
            THEN Field("scopeContext") \o writeInt(n.ScopeContext)
            ELSE <<>>)
        \o <<CM>> \o writePosition(n) \o <<RB>>

VisitNumberLiteral(n) ==
    TypeOpen("Literal") \o Field("value") \o writeNumber(n.Value)
        \o (IF n.RawSet THEN Field("raw") \o writeString(n.Raw) ELSE <<>>)
        \o <<CM>> \o writePosition(n) \o <<RB>>

VisitStringLiteral(n) ==
    TypeOpen("Literal") \o Field("value") \o writeString(n.Value)
        \o (IF n.RawSet THEN Field("raw") \o writeString(n.Raw) ELSE <<>>)
        \o <<CM>> \o writePosition(n) \o <<RB>>

serializeParam(param) ==
    IF param.Initializer # Nil
    THEN TypeOpen("AssignmentPattern") \o Field("left") \o serialize(param.Target)
            \o Field("right") \o serialize(param.Initializer)
            \o <<CM>> \o writePosition(param) \o <<RB>>
    ELSE serialize(param.Target)

\* a version that writes the comma before the rest element whatever comes
\* before it
writeParams_alwaysComma(pl) ==
    Field("params") \o <<LK>>
        \o Commas([i \in 1..Len(pl.List) |-> serializeParam(pl.List[i])])
        \o (IF pl.Rest # Nil
            THEN <<CM>> \o TypeOpen("RestElement") \o Field("argument")
                    \o serialize(pl.Rest) \o <<RB>>
            ELSE <<>>)
        \o <<RK>>

\* "params":[ ... ] of a function: the parameters, then the rest element
writeParams(pl) ==
    Field("params") \o <<LK>>
        \o Commas([i \in 1..Len(pl.List) |-> serializeParam(pl.List[i])])
        \o (IF pl.Rest # Nil
            THEN (IF Len(pl.List) > 0 THEN <<CM>> ELSE <<>>)
                    \o TypeOpen("RestElement") \o Field("argument")
                    \o serialize(pl.Rest) \o <<RB>>
            ELSE <<>>)
        \o <<RK>>

VisitFunctionLiteral(n) ==
    TypeOpen("FunctionExpression") \o Field("id")
        \o (IF n.Name # Nil THEN serialize(n.Name) ELSE writeNull)
        \o writeParams(n.ParameterList)
        \o Field("body") \o serialize(n.Body)
        \o Field("generator") \o writeBool(n.Generator)
        \o Field("async") \o writeBool(n.Async)
        \o (IF n.ScopeContext # 0
            THEN Field("scopeContext") \o writeInt(n.ScopeContext)
            ELSE <<>>)
        \o <<CM>> \o writePosition(n) \o <<RB>>

\* the first "," of the params field is part of the literal that opens the
\* object: {"type":"ArrowFunctionExpression","id":null,"params":[
VisitArrowFunctionLiteral(n) ==
    TypeOpen("ArrowFunctionExpression") \o Field("id") \o <<L("null")>>
        \o writeParams(n.ParameterList)
        \o Field("body") \o serialize(n.Body)
        \o Field("expression") \o writeBool(n.Body.Body.kind # "BlockStatement")
        \o Field("async") \o writeBool(n.Async)
        \o (IF n.ScopeContext # 0
            THEN Field("scopeContext") \o writeInt(n.ScopeContext)
            ELSE <<>>)
        \o <<CM>> \o writePosition(n) \o <<RB>>

VisitConciseBody(n) == serialize(n.Body)

VisitFunctionDeclaration(n) ==
    TypeOpen("FunctionDeclaration") \o Field("id")
        \o (IF n.Function.Name # Nil THEN serialize(n.Function.Name) ELSE writeNull)
        \o writeParams(n.Function.ParameterList)
        \o Field("body") \o serialize(n.Function.Body)
        \o Field("generator") \o writeBool(n.Function.Generator)
        \o Field("async") \o writeBool(n.Function.Async)
        \o (IF n.Function.ScopeContext # 0
            THEN Field("scopeContext") \o writeInt(n.Function.ScopeContext)
            ELSE <<>>)
        \o <<CM>> \o writePosition(n) \o <<RB>>

VisitBlockStatement(n) ==
    TypeOpen("BlockStatement") \o Field("body") \o <<LK>>
        \o Commas([i \in 1..Len(n.List) |-> serialize(n.List[i])])
        \o <<RK>>
        \o (IF n.ScopeContext # 0
            THEN Field("scopeContext") \o writeInt(n.ScopeContext)
            ELSE <<>>)
        \o <<CM>> \o writePosition(n) \o <<RB>>

VisitExpressionStatement(n) ==
    TypeOpen("ExpressionStatement") \o Field("expression")
        \o serialize(n.Expression) \o <<CM>> \o writePosition(n) \o <<RB>>

VisitEmptyStatement(n) ==
    TypeOpen("EmptyStatement") \o <<CM>> \o writePosition(n) \o <<RB>>

VisitSwitchStatement(n) ==
    TypeOpen("SwitchStatement") \o Field("discriminant")
        \o serialize(n.Discriminant) \o Field("cases") \o <<LK>>
        \o Commas([i \in 1..Len(n.Body) |-> serialize(n.Body[i])])
        \o <<RK, CM>> \o writePosition(n) \o <<RB>>

VisitCaseStatement(n) ==
    TypeOpen("SwitchCase") \o Field("test")
        \o (IF n.Test # Nil THEN serialize(n.Test) ELSE writeNull)
        \o Field("consequent") \o <<LK>>
        \o Commas([i \in 1..Len(n.Consequent) |-> serialize(n.Consequent[i])])
        \o <<RK, CM>>
        \o (IF Len(n.Consequent) > 0
            THEN writePosition(n)
            ELSE writePositionStartOnly(n.Case))
        \o <<RB>>

VisitReturnStatement(n) ==
    TypeOpen("ReturnStatement") \o Field("argument")
        \o (IF n.Argument # Nil THEN serialize(n.Argument) ELSE writeNull)
        \o <<CM>> \o writePosition(n) \o <<RB>>

VisitVariableDeclaration(n) ==
    TypeOpen("VariableDeclaration") \o Field("declarations") \o <<LK>>
        \o Commas([i \in 1..Len(n.List) |-> serialize(n.List[i])])
        \o <<RK>> \o Field("kind") \o writeString(TokenString(n.Token))
        \o <<CM>> \o writePosition(n) \o <<RB>>

VisitVariableDeclarator(n) ==
    TypeOpen("VariableDeclarator") \o Field("id") \o serialize(n.Target)
        \o Field("init")
        \o (IF n.Initializer # Nil THEN serialize(n.Initializer) ELSE writeNull)
        \o <<CM>> \o writePosition(n) \o <<RB>>

VisitArrayPattern(n) ==
    TypeOpen("ArrayPattern") \o Field("elements") \o <<LK>>
        \o Commas([i \in 1..Len(n.Elements) |->
                    IF n.Elements[i] = Nil THEN writeNull
                    ELSE serialize(n.Elements[i])])
        \o (IF n.Rest # Nil
            THEN (IF Len(n.Elements) > 0 THEN <<CM>> ELSE <<>>)
                    \o TypeOpen("RestElement") \o Field("argument")
                    \o serialize(n.Rest) \o <<RB>>
            ELSE <<>>)
        \o <<RK, CM>> \o writePosition(n) \o <<RB>>

\* "id", "superClass" and "body" of a class, shared by the literal and the
\* declaration
VisitObjectPattern(n) ==
    TypeOpen("ObjectPattern") \o Field("properties") \o <<LK>>
        \o Commas([i \in 1..Len(n.Properties) |-> serialize(n.Properties[i])])
        \o (IF n.Rest # Nil
            THEN (IF Len(n.Properties) > 0 THEN <<CM>> ELSE <<>>)
                    \o TypeOpen("RestElement") \o Field("argument")
                    \o serialize(n.Rest) \o <<RB>>
            ELSE <<>>)
        \o <<RK, CM>> \o writePosition(n) \o <<RB>>

VisitPropertyShort(n) ==
    TypeOpen("Property") \o Field("key") \o serialize(n.Name)
        \o Field("value")
        \o (IF n.Initializer # Nil
            THEN TypeOpen("AssignmentPattern") \o Field("left") \o serialize(n.Name)
                    \o Field("right") \o serialize(n.Initializer)
                    \o <<CM>> \o writePosition(n) \o <<RB>>
            ELSE serialize(n.Name))
        \o Field("kind") \o <<S("init")>> \o Field("computed") \o <<L("false")>>
        \o Field("method") \o <<L("false")>> \o Field("shorthand") \o <<L("true")>>
        \o <<CM>> \o writePosition(n) \o <<RB>>

writeClass(c) ==
    Field("id") \o (IF c.Name # Nil THEN serialize(c.Name) ELSE writeNull)
        \o Field("superClass")
        \o (IF c.SuperClass # Nil THEN serialize(c.SuperClass) ELSE writeNull)
        \o Field("body") \o TypeOpen("ClassBody") \o Field("body") \o <<LK>>
        \o Commas([i \in 1..Len(c.Body) |-> serialize(c.Body[i])])
        \o <<RK, RB, CM>>

VisitClassLiteral(n) ==
    TypeOpen("ClassExpression") \o writeClass(n) \o writePosition(n) \o <<RB>>

VisitClassDeclaration(n) ==
    TypeOpen("ClassDeclaration") \o writeClass(n.Class) \o writePosition(n) \o <<RB>>

VisitFieldDefinition(n) ==
    TypeOpen("PropertyDefinition") \o Field("key") \o serialize(n.Key)
        \o Field("value")
        \o (IF n.Initializer # Nil THEN serialize(n.Initializer) ELSE writeNull)
        \o Field("computed") \o writeBool(n.Computed)
        \o Field("static") \o writeBool(n.Static)
        \o <<CM>> \o writePosition(n) \o <<RB>>

VisitBinaryExpression(n) ==
    TypeOpen("BinaryExpression") \o Field("operator") \o writeOperator(n.Operator)
        \o Field("left") \o serialize(n.Left)
        \o Field("right") \o serialize(n.Right)
        \o <<CM>> \o writePosition(n) \o <<RB>>

VisitUnaryExpression(n) ==
    TypeOpen("UnaryExpression") \o Field("operator") \o writeOperator(n.Operator)
        \o Field("prefix") \o <<L("true")>>
        \o Field("argument") \o serialize(n.Operand)
        \o <<CM>> \o writePosition(n) \o <<RB>>

VisitUpdateExpression(n) ==
    TypeOpen("UpdateExpression") \o Field("operator") \o writeOperator(n.Operator)
        \o Field("prefix") \o writeBool(~n.Postfix)
        \o Field("argument") \o serialize(n.Operand)
        \o <<CM>> \o writePosition(n) \o <<RB>>

\* a version that writes the operator's text as it is
VisitAssignExpression_noSuffix(n) ==
    TypeOpen("AssignmentExpression") \o Field("operator")
        \o writeString(token_Text(n.Operator))
        \o Field("left") \o serialize(n.Left)
        \o Field("right") \o serialize(n.Right)
        \o <<CM>> \o writePosition(n) \o <<RB>>

\* op := n.Operator.String(); op += "=" unless the operator is token.Assign
VisitAssignExpression(n) ==
    LET op == IF n.Operator # "Assign"
              THEN token_Text(n.Operator) \o <<61>>
              ELSE token_Text(n.Operator)
    IN  TypeOpen("AssignmentExpression") \o Field("operator") \o writeString(op)
            \o Field("left") \o serialize(n.Left)
            \o Field("right") \o serialize(n.Right)
            \o <<CM>> \o writePosition(n) \o <<RB>>

VisitArrayLiteral(n) ==
    TypeOpen("ArrayExpression") \o Field("elements") \o <<LK>>
        \o Commas([i \in 1..Len(n.Value) |->
                    IF n.Value[i] = Nil THEN writeNull
                    ELSE serialize(n.Value[i])])
        \o <<RK, CM>> \o writePosition(n) \o <<RB>>

VisitYieldExpression(n) ==
    TypeOpen("YieldExpression") \o Field("argument")
        \o (IF n.Argument # Nil THEN serialize(n.Argument) ELSE writeNull)
        \o Field("delegate") \o writeBool(n.Delegate)
        \o <<CM>> \o writePosition(n) \o <<RB>>

\* a version that writes "alternate" only when there is an else branch
VisitIfStatement_omitsAlternate(n) ==
    TypeOpen("IfStatement") \o Field("test") \o serialize(n.Test)
        \o Field("consequent") \o serialize(n.Consequent)
        \o (IF n.Alternate # Nil
            THEN Field("alternate") \o serialize(n.Alternate)
            ELSE <<>>)
        \o <<CM>> \o writePosition(n) \o <<RB>>

VisitIfStatement(n) ==
    TypeOpen("IfStatement") \o Field("test") \o serialize(n.Test)
        \o Field("consequent") \o serialize(n.Consequent)
        \o Field("alternate")
        \o (IF n.Alternate # Nil THEN serialize(n.Alternate) ELSE writeNull)
        \o <<CM>> \o writePosition(n) \o <<RB>>

VisitForStatement(n) ==
    TypeOpen("ForStatement") \o Field("init")
        \o (IF n.Initializer # Nil THEN serialize(n.Initializer) ELSE writeNull)
        \o Field("test")
        \o (IF n.Test # Nil THEN serialize(n.Test) ELSE writeNull)
        \o Field("update")
        \o (IF n.Update # Nil THEN serialize(n.Update) ELSE writeNull)
        \o Field("body") \o serialize(n.Body)
        \o <<CM>> \o writePosition(n) \o <<RB>>

\* the type switch has a case for an expression and one for a declaration
VisitForLoopInitializer(n) ==
    IF n.Initializer.kind \in {"Expression", "VariableDeclaration"}
    THEN serialize(IF n.Initializer.kind = "Expression"
                   THEN n.Initializer.Expr
                   ELSE n.Initializer)
    ELSE <<>>

VisitTryStatement(n) ==
    TypeOpen("TryStatement") \o Field("block") \o serialize(n.Body)
        \o Field("handler")
        \o (IF n.Catch # Nil THEN serialize(n.Catch) ELSE writeNull)
        \o Field("finalizer")
        \o (IF n.Finally # Nil THEN serialize(n.Finally) ELSE writeNull)
        \o <<CM>> \o writePosition(n) \o <<RB>>

VisitCatchStatement(n) ==
    TypeOpen("CatchClause") \o Field("param")
        \o (IF n.Parameter # Nil /\ n.Parameter.Target # Nil
            THEN serialize(n.Parameter.Target)
            ELSE writeNull)
        \o Field("body") \o serialize(n.Body)
        \o <<CM>> \o writePosition(n) \o <<RB>>

VisitBreakStatement(n) ==
    TypeOpen("BreakStatement") \o Field("label")
        \o (IF n.Label # Nil THEN serialize(n.Label) ELSE writeNull)
        \o <<CM>> \o writePosition(n) \o <<RB>>

VisitContinueStatement(n) ==
    TypeOpen("ContinueStatement") \o Field("label")
        \o (IF n.Label # Nil THEN serialize(n.Label) ELSE writeNull)
        \o <<CM>> \o writePosition(n) \o <<RB>>

\* node.VisitWith(s): the visitor method of the node's variant; a variant
\* the Serializer does not override falls to NoopVisitor and writes nothing
VisitWith(n) ==
    CASE n.kind = "Program" -> VisitProgram(n)
      [] n.kind = "Identifier" -> VisitIdentifier(n)
      [] n.kind = "NumberLiteral" -> VisitNumberLiteral(n)
      [] n.kind = "StringLiteral" -> VisitStringLiteral(n)
      [] n.kind = "FunctionLiteral" -> VisitFunctionLiteral(n)
      [] n.kind = "FunctionDeclaration" -> VisitFunctionDeclaration(n)
      [] n.kind = "BlockStatement" -> VisitBlockStatement(n)
      [] n.kind = "ExpressionStatement" -> VisitExpressionStatement(n)
      [] n.kind = "EmptyStatement" -> VisitEmptyStatement(n)
      [] n.kind = "SwitchStatement" -> VisitSwitchStatement(n)
      [] n.kind = "CaseStatement" -> VisitCaseStatement(n)
      [] n.kind = "ReturnStatement" -> VisitReturnStatement(n)
      [] n.kind = "VariableDeclaration" -> VisitVariableDeclaration(n)
      [] n.kind = "VariableDeclarator" -> VisitVariableDeclarator(n)
      [] n.kind = "ArrayPattern" -> VisitArrayPattern(n)
      [] n.kind = "BinaryExpression" -> VisitBinaryExpression(n)
      [] n.kind = "UnaryExpression" -> VisitUnaryExpression(n)
      [] n.kind = "UpdateExpression" -> VisitUpdateExpression(n)
      [] n.kind = "AssignExpression" -> VisitAssignExpression(n)
      [] n.kind = "ArrowFunctionLiteral" -> VisitArrowFunctionLiteral(n)
      [] n.kind = "ConciseBody" -> VisitConciseBody(n)
      [] n.kind = "ObjectPattern" -> VisitObjectPattern(n)
      [] n.kind = "PropertyShort" -> VisitPropertyShort(n)
      [] n.kind = "ClassLiteral" -> VisitClassLiteral(n)
      [] n.kind = "ClassDeclaration" -> VisitClassDeclaration(n)
      [] n.kind = "FieldDefinition" -> VisitFieldDefinition(n)
      [] n.kind = "ArrayLiteral" -> VisitArrayLiteral(n)
      [] n.kind = "YieldExpression" -> VisitYieldExpression(n)
      [] n.kind = "IfStatement" -> VisitIfStatement(n)
      [] n.kind = "ForStatement" -> VisitForStatement(n)
      [] n.kind = "ForLoopInitializer" -> VisitForLoopInitializer(n)
      [] n.kind = "TryStatement" -> VisitTryStatement(n)
      [] n.kind = "CatchStatement" -> VisitCatchStatement(n)
      [] n.kind = "BreakStatement" -> VisitBreakStatement(n)
      [] n.kind = "ContinueStatement" -> VisitContinueStatement(n)
      [] OTHER -> <<>>

serialize(n) == IF n = Nil THEN <<L("null")>> ELSE VisitWith(n)

(***************************************************************************)
(*                        READING THE OUTPUT AS JSON                       *)
(* What a JSON decoder (encoding/json in the tests, JSON.parse in the      *)
(* wrappers) makes of a text.  An index is a position in the sequence of   *)
(* pieces; an operator that returns an index returns 0 for a malformed     *)
(* text.                                                                   *)
(***************************************************************************)
MaxInt == 130       \* the largest integer the model's trees make the serializer write

IntTexts == {DecimalText(n) : n \in 0..MaxInt}
FracTexts == {"3.14"}
NumberTexts == IntTexts \cup FracTexts

\* the integer a decimal text stands for
ParseInt(text) == CHOOSE n \in 0..MaxInt : DecimalText(n) = text

ShortEscapes == {"\\\"", "\\\\", "\\n", "\\r", "\\t"}
\* the bytes that may follow a backslash: " \ / b f n r t
EscapableBytes == {34, 92, 47, 98, 102, 110, 114, 116}
IsHexByte(p) ==
    p.k = "byte" /\ (p.b \in 48..57 \/ p.b \in 97..102 \/ p.b \in 65..70)

\* the index after the closing quote of the string whose content starts at j
RECURSIVE StringBodyEnd(_, _)
StringBodyEnd(o, j) ==
    IF j > Len(o) THEN 0
    ELSE LET p == o[j] IN
         CASE p.k = "byte" ->
                IF p.b = QUOTE THEN j + 1
                ELSE IF p.b < SPACE THEN 0
                ELSE IF p.b = BACKSLASH
                THEN IF j + 1 <= Len(o) /\ o[j + 1].k = "byte"
                          /\ o[j + 1].b \in EscapableBytes
                     THEN StringBodyEnd(o, j + 2)
                     ELSE 0
                ELSE StringBodyEnd(o, j + 1)
           [] p.k = "raw" ->
                IF p.lit \in ShortEscapes THEN StringBodyEnd(o, j + 1)
                ELSE IF p.lit = "\\u00"
                THEN IF j + 2 <= Len(o) /\ IsHexByte(o[j + 1]) /\ IsHexByte(o[j + 2])
                     THEN StringBodyEnd(o, j + 3)
                     ELSE 0
                ELSE 0
           [] p.k = "text" -> StringBodyEnd(o, j + 1)
           [] OTHER -> 0

\* the index after the string that starts at i, 0 when none starts there
StringEnd(o, i) ==
    IF i > Len(o) THEN 0
    ELSE IF o[i].k = "str" THEN i + 1
    ELSE IF o[i] = B(QUOTE) THEN StringBodyEnd(o, i + 1)
    ELSE 0

Punctuation == {LB, RB, LK, RK, CM, CL}

RECURSIVE ValueEndOf(_, _, _)
RECURSIVE MembersEnd(_, _, _)
RECURSIVE ElementsEnd(_, _, _)

\* the index after the value that starts at i.  With strict, a scalar must
\* be true, false, null or a number; without, any one piece that is not
\* punctuation passes for a scalar, so that the structure around a bad
\* scalar can still be walked.
ValueEndOf(o, i, strict) ==
    IF i > Len(o) THEN 0
    ELSE LET p == o[i] IN
         CASE p = LB ->
                IF i + 1 <= Len(o) /\ o[i + 1] = RB THEN i + 2
                ELSE MembersEnd(o, i + 1, strict)
           [] p = LK ->
                IF i + 1 <= Len(o) /\ o[i + 1] = RK THEN i + 2
                ELSE ElementsEnd(o, i + 1, strict)
           [] p.k = "str" \/ p = B(QUOTE) -> StringEnd(o, i)
           [] p.k = "raw" /\ p.lit \in ({"true", "false", "null"} \cup NumberTexts) -> i + 1
           [] p.k = "raw" /\ ~strict /\ p \notin Punctuation -> i + 1
           [] OTHER -> 0

\* the index after the "}" of the object whose next member starts at j
MembersEnd(o, j, strict) ==
    LET k == StringEnd(o, j)
        v == IF k = 0 \/ k > Len(o) \/ o[k] # CL THEN 0 ELSE ValueEndOf(o, k + 1, strict)
    IN  IF v = 0 \/ v > Len(o) THEN 0
        ELSE IF o[v] = RB THEN v + 1
        ELSE IF o[v] = CM THEN MembersEnd(o, v + 1, strict)
        ELSE 0

\* the index after the "]" of the array whose next element starts at j
ElementsEnd(o, j, strict) ==
    LET v == ValueEndOf(o, j, strict)
    IN  IF v = 0 \/ v > Len(o) THEN 0
        ELSE IF o[v] = RK THEN v + 1
        ELSE IF o[v] = CM THEN ElementsEnd(o, v + 1, strict)
        ELSE 0

ValueEnd(o, i) == ValueEndOf(o, i, TRUE)

\* the text is one JSON value and nothing else
WellFormed(o) == Len(o) > 0 /\ ValueEnd(o, 1) = Len(o) + 1

\* the index after the value at i, whatever its scalars are
SkipValue(o, i) == ValueEndOf(o, i, FALSE)

\* the members of an object from the member that starts at j: the key and
\* the index of the value of each
RECURSIVE MembersFrom(_, _)
MembersFrom(o, j) ==
    IF j > Len(o) \/ o[j] = RB THEN <<>>
    ELSE LET k == StringEnd(o, j)
             v == SkipValue(o, k + 1)
             m == [key |-> IF o[j].k = "str" THEN o[j].lit ELSE "", at |-> k + 1]
         IN  <<m>> \o (IF v > 0 /\ v <= Len(o) /\ o[v] = CM
                       THEN MembersFrom(o, v + 1)
                       ELSE <<>>)

\* the members of the object at i
Members(o, i) == MembersFrom(o, i + 1)

KeysOf(o, i) == {Members(o, i)[m].key : m \in 1..Len(Members(o, i))}

\* the index of the value of `key` in the object at i
ValueIndex(o, i, key) ==
    LET ms == Members(o, i)
    IN  ms[CHOOSE m \in 1..Len(ms) : ms[m].key = key].at

\* the start indexes of the elements of an array from the element at j
RECURSIVE ElementsFrom(_, _)
ElementsFrom(o, j) ==
    IF j > Len(o) \/ o[j] = RK THEN <<>>
    ELSE LET v == SkipValue(o, j)
         IN  <<j>> \o (IF v > 0 /\ v <= Len(o) /\ o[v] = CM
                       THEN ElementsFrom(o, v + 1)
                       ELSE <<>>)

\* the elements of the array at i
Elements(o, i) == ElementsFrom(o, i + 1)

\* the objects of the text: every "{" opens one
Objects(o) == {i \in 1..Len(o) : o[i] = LB}

\* ---- what a JSON decoder reads from a string of the output
HexValue(b) == IF b \in 48..57 THEN b - 48 ELSE IF b \in 97..102 THEN b - 87 ELSE b - 55

\* the byte a short escape stands for
Unescaped(lit) ==
    CASE lit = "\\\"" -> QUOTE
      [] lit = "\\\\" -> BACKSLASH
      [] lit = "\\n" -> NL
      [] lit = "\\r" -> CR
      [] lit = "\\t" -> TAB

\* the content of the string whose body starts at j, escapes undone, up to
\* its closing quote
RECURSIVE UnescapeFrom(_, _)
UnescapeFrom(o, j) ==
    IF j > Len(o) \/ o[j] = B(QUOTE) THEN <<>>
    ELSE LET p == o[j] IN
         CASE p.k = "raw" /\ p.lit \in ShortEscapes ->
                <<B(Unescaped(p.lit))>> \o UnescapeFrom(o, j + 1)
           [] p.k = "raw" /\ p.lit = "\\u00" /\ j + 2 <= Len(o) ->
                <<B(HexValue(o[j + 1].b) * 16 + HexValue(o[j + 2].b))>>
                    \o UnescapeFrom(o, j + 3)
           [] OTHER -> <<p>> \o UnescapeFrom(o, j + 1)

IsContinuation(p) == p.k = "byte" /\ p.b \in 128..191

\* U+FFFD, which a decoder puts for a byte that is not part of a UTF-8
\* sequence
ReplacementRune == <<B(239), B(191), B(189)>>

\* the text as a decoder takes it: sequences of one, two and three bytes
\* pass, any other byte becomes U+FFFD
RECURSIVE Utf8From(_, _)
Utf8From(q, i) ==
    IF i > Len(q) THEN <<>>
    ELSE LET p == q[i] IN
         IF p.k # "byte" \/ p.b < 128 THEN <<p>> \o Utf8From(q, i + 1)
         ELSE IF p.b \in 194..223 /\ i + 1 <= Len(q) /\ IsContinuation(q[i + 1])
         THEN <<p, q[i + 1]>> \o Utf8From(q, i + 2)
         ELSE IF /\ p.b \in 224..239
                 /\ i + 2 <= Len(q)
                 /\ IsContinuation(q[i + 1])
                 /\ IsContinuation(q[i + 2])
         THEN <<p, q[i + 1], q[i + 2]>> \o Utf8From(q, i + 3)
         ELSE ReplacementRune \o Utf8From(q, i + 1)

\* the string that starts at i (its opening quote), decoded
JsonString(o, i) == Utf8From(UnescapeFrom(o, i + 1), 1)

IsUtf8(s) == Utf8From(Bytes(s), 1) = Bytes(s)

(***************************************************************************)
(*                     THE TREES THE SERIALIZER IS GIVEN                   *)
(* Trees as ParseFile builds them for small programs, with the stamps the  *)
(* resolver may have left (ScopeContext 0: not stamped).                   *)
(***************************************************************************)
MaxList == 2        \* longest list of children (body, params, cases, elements)
MaxPos == 2         \* largest Idx of the leaves whose span varies
MaxScope == 1       \* largest scope identifier of a stamp

\* all sequences over S of length at most n
SeqsUpTo(U, n) == UNION { [1..m -> U] : m \in 0..n }

Spans == {<<a, b>> : a \in 0..MaxPos, b \in 0..MaxPos}

IdA == Identifier(NameA, 0, 1, 2)

Idents ==
    {Identifier(NameA, sc, s[1], s[2]) : sc \in 0..MaxScope, s \in Spans}

\* 42, 123, 3.14 and 1e999
Numbers ==
    {NumberLiteral(v, rs, <<49>>, 1, 3) :
        v \in {IntValue(42), IntValue(123), FracValue("3.14"), PosInf},
        rs \in BOOLEAN}

Strings ==
    {StringLiteral(v, FALSE, <<>>, 1, 3) :
        v \in {NameA, <<QUOTE>>, <<BACKSLASH, NL>>, <<1, TAB, CR>>}}

Exprs == Idents \cup Numbers \cup Strings

ExprStmt(e) == ExpressionStatement(e, e.idx0, e.idx1)
ExprStmts == {ExprStmt(e) : e \in Exprs}

Blocks ==
    {BlockStatement(l, sc, 1, 9) : l \in {<<>>, <<ExprStmt(IdA)>>}, sc \in 0..MaxScope}

Returns == {ReturnStatement(a, 3, 8) : a \in {Nil, IdA}}

\* a, and a = 42
Params ==
    {VariableDeclarator(IdA, i, 1, 4) :
        i \in {Nil, NumberLiteral(IntValue(42), FALSE, <<>>, 3, 4)}}

ParameterLists ==
    {ParameterList(l, r) : l \in SeqsUpTo(Params, MaxList), r \in {Nil, IdA}}

Functions ==
    {FunctionLiteral(name, pl, BlockStatement(<<>>, sc, 5, 7), FALSE, FALSE, sc, 1, 7) :
        name \in {Nil, IdA}, pl \in ParameterLists, sc \in 0..MaxScope}

FunctionDeclarations == {FunctionDeclaration(f) : f \in Functions}

Cases ==
    {CaseStatement(1, IdA, <<>>), CaseStatement(4, Nil, <<ExprStmt(IdA)>>)}

Switches == {SwitchStatement(IdA, b, 1, 9) : b \in SeqsUpTo(Cases, MaxList)}

Fields == {FieldDefinition(IdA, Nil, FALSE, FALSE, 3, 4)}

Classes ==
    {ClassLiteral(name, super, b, 1, 9) :
        name \in {Nil, IdA}, super \in {Nil, IdA}, b \in SeqsUpTo(Fields, 1)}

ClassDeclarations == {ClassDeclaration(c) : c \in Classes}

ArrayPatterns ==
    {ArrayPattern(el, r, 1, 5) : el \in SeqsUpTo({Nil, IdA}, MaxList), r \in {Nil, IdA}}

\* the operators of the compound assignments: an AssignExpression holds
\* token.Assign for "=" and, for a compound assignment, the operator that
\* the assignment applies
CompoundOperators ==
    {"Plus", "Minus", "Multiply", "Exponent", "Slash", "Remainder", "And", "Or",
     "ExclusiveOr", "ShiftLeft", "ShiftRight", "UnsignedShiftRight"}

UnaryOperators == {"Not", "BitwiseNot", "Typeof", "Void", "Delete", "Plus", "Minus"}

UpdateOperators == {"Increment", "Decrement"}

BinaryOperators ==
    CompoundOperators
        \cup {"LogicalAnd", "LogicalOr", "Coalesce", "Equal", "StrictEqual", "NotEqual",
              "StrictNotEqual", "Less", "Greater", "LessOrEqual", "GreaterOrEqual",
              "In", "InstanceOf"}

\* a + a, !a, a++ and ++a, a = a and a += a, with every operator
OperatorExpressions ==
    {[kind |-> "BinaryExpression", Operator |-> t, Left |-> IdA, Right |-> IdA,
      idx0 |-> 1, idx1 |-> 6] : t \in BinaryOperators}
        \cup {[kind |-> "UnaryExpression", Operator |-> t, Operand |-> IdA,
               idx0 |-> 1, idx1 |-> 6] : t \in UnaryOperators}
        \cup {[kind |-> "UpdateExpression", Operator |-> t, Operand |-> IdA,
               Postfix |-> px, idx0 |-> 1, idx1 |-> 6] :
                    t \in UpdateOperators, px \in BOOLEAN}
        \cup {[kind |-> "AssignExpression", Operator |-> t, Left |-> IdA, Right |-> IdA,
               idx0 |-> 1, idx1 |-> 6] : t \in {"Assign"} \cup CompoundOperators}

\* (a) => a and (a) => {}, with the parameter lists of the functions
ArrowFunctions ==
    {[kind |-> "ArrowFunctionLiteral", ParameterList |-> pl,
      Body |-> [kind |-> "ConciseBody", Body |-> b], Async |-> FALSE,
      ScopeContext |-> 0, idx0 |-> 1, idx1 |-> 9] :
        pl \in ParameterLists, b \in {IdA, BlockStatement(<<>>, 0, 7, 9)}}

\* {a}, {a = 42}, {a, ...a}
ShortProperties ==
    {[kind |-> "PropertyShort", Name |-> IdA, Initializer |-> i,
      idx0 |-> 2, idx1 |-> 3] :
        i \in {Nil, NumberLiteral(IntValue(42), FALSE, <<>>, 3, 4)}}

ObjectPatterns ==
    {[kind |-> "ObjectPattern", Properties |-> ps, Rest |-> r,
      idx0 |-> 1, idx1 |-> 5] :
        ps \in SeqsUpTo(ShortProperties, MaxList), r \in {Nil, IdA}}

VariableDeclarations ==
    {VariableDeclaration("let", <<VariableDeclarator(pat, i, 1, 6)>>, 1, 7) :
        pat \in ArrayPatterns, i \in {Nil, IdA}}

\* [a, , a]: a hole is an element without an expression
ArrayLiterals ==
    {[kind |-> "ArrayLiteral", Value |-> v, idx0 |-> 1, idx1 |-> 5] :
        v \in SeqsUpTo({Nil, IdA}, MaxList)}

Yields ==
    {[kind |-> "YieldExpression", Argument |-> a, Delegate |-> d,
      idx0 |-> 1, idx1 |-> 6] : a \in {Nil, IdA}, d \in BOOLEAN}

Ifs ==
    {[kind |-> "IfStatement", Test |-> IdA, Consequent |-> EmptyStatement(5, 6),
      Alternate |-> a, idx0 |-> 1, idx1 |-> 9] :
        a \in {Nil, EmptyStatement(8, 9), ExprStmt(IdA)}}

ForInits ==
    {Nil,
     [kind |-> "ForLoopInitializer",
      Initializer |-> [kind |-> "Expression", Expr |-> IdA]],
     [kind |-> "ForLoopInitializer",
      Initializer |->
        VariableDeclaration("let", <<VariableDeclarator(IdA, Nil, 5, 6)>>, 1, 6)]}

Fors ==
    {[kind |-> "ForStatement", Initializer |-> i, Test |-> t, Update |-> u,
      Body |-> EmptyStatement(8, 9), idx0 |-> 1, idx1 |-> 9] :
        i \in ForInits, t \in {Nil, IdA}, u \in {Nil, IdA}}

\* catch {}, and catch (a) {}; a parameter may also come without target
Catches ==
    {[kind |-> "CatchStatement", Parameter |-> q,
      Body |-> BlockStatement(<<>>, 0, 5, 7), idx0 |-> 3, idx1 |-> 7] :
        q \in {Nil, [Target |-> Nil], [Target |-> IdA]}}

Tries ==
    {[kind |-> "TryStatement", Body |-> BlockStatement(<<>>, 0, 1, 2),
      Catch |-> c, Finally |-> f, idx0 |-> 1, idx1 |-> 9] :
        c \in {Nil} \cup Catches, f \in {Nil, BlockStatement(<<>>, 0, 8, 9)}}

Jumps ==
    {[kind |-> k, Label |-> l, idx0 |-> 1, idx1 |-> 6] :
        k \in {"BreakStatement", "ContinueStatement"}, l \in {Nil, IdA}}

Stmts ==
    ExprStmts \cup Blocks \cup Returns \cup FunctionDeclarations \cup Switches
        \cup ClassDeclarations \cup VariableDeclarations \cup {EmptyStatement(1, 2)}

\* the statements the model puts at the top level of a program
TopStmts ==
    { ExprStmt(IdA),
      ExprStmt(Identifier(NameA, 1, 1, 2)),
      ExprStmt(NumberLiteral(PosInf, FALSE, <<>>, 1, 3)),
      FunctionDeclaration(FunctionLiteral(IdA, ParameterList(<<>>, IdA),
            BlockStatement(<<>>, 0, 5, 7), FALSE, FALSE, 0, 1, 7)),
      SwitchStatement(IdA, <<CaseStatement(1, IdA, <<>>)>>, 1, 9),
      ClassDeclaration(ClassLiteral(IdA, Nil, <<>>, 1, 9)),
      EmptyStatement(3, 4) }

Programs == {Program(b) : b \in SeqsUpTo(TopStmts, MaxList)}

Nodes ==
    Exprs \cup Stmts \cup Functions \cup Classes \cup Cases \cup ArrayPatterns
        \cup ArrowFunctions \cup ObjectPatterns \cup OperatorExpressions
        \cup ArrayLiterals \cup Yields \cup Ifs \cup Fors \cup Catches \cup Tries
        \cup Jumps \cup Programs

\* Serialize(node) of a call that no other call disturbs: the buffer is
\* cut to length 0, the node visited, the buffer returned as a string
Serialize(n) == VisitWith(n)

SerializeNode ==
    /\ serPc = "ready"
    /\ out' = Serialize(node)
    /\ serPc' = "done"
    /\ UNCHANGED <<node, notSerVars>>

InitSerializer ==
    /\ StrIdle
    /\ node \in Nodes
    /\ out = <<>>
    /\ serPc = "ready"
    /\ ErrIdle
    /\ PoolIdle
    /\ GoIdle
    /\ ResIdle
    /\ JsIdle

NextSerializer == SerializeNode

SpecSerializer == InitSerializer /\ [][NextSerializer]_vars

\* ---- observers of one Serialize call
EmitsStart(n) == n.kind # "Program" \/ Len(n.Body) > 0
EmitsEnd(n) ==
    EmitsStart(n) /\ ~(n.kind = "CaseStatement" /\ Len(n.Consequent) = 0)

\* the number written for `key` in the outermost object of the output
TopNumber(o, key) == ParseInt(o[ValueIndex(o, 1, key)].lit)

\* C6: for every program that ParseFile accepts, Serialize returns one
\* well-formed JSON object whose "type" is "Program" and whose "body" is an
\* array with one entry per top-level statement, in source order.
C6_ProgramIsWellFormedJson ==
    (serPc = "done" /\ node.kind = "Program") =>
        /\ WellFormed(out)
        /\ out[1] = LB
        /\ out[ValueIndex(out, 1, "type")] = S("Program")
        /\ LET b == ValueIndex(out, 1, "body")
               el == Elements(out, b)
           IN  /\ out[b] = LK
               /\ Len(el) = Len(node.Body)
               /\ \A k \in 1..Len(el) :
                    SubSeq(out, el[k], ValueEnd(out, el[k]) - 1)
                        = serialize(node.Body[k])

\* C7: for every node the serializer writes positions for, "start" is
\* Idx0 - 1 and "end" is Idx1 - 1 when the Idx is set (>= 1), an unset Idx
\* (0) is written as 0, and start <= end whenever Idx0 <= Idx1.
C7_PositionsAreZeroBased ==
    (serPc = "done" /\ EmitsStart(node)) =>
        /\ "start" \in KeysOf(out, 1)
        /\ TopNumber(out, "start") = (IF Idx0(node) = 0 THEN 0 ELSE Idx0(node) - 1)
        /\ EmitsEnd(node) =>
            /\ "end" \in KeysOf(out, 1)
            /\ TopNumber(out, "end") = (IF Idx1(node) = 0 THEN 0 ELSE Idx1(node) - 1)
            /\ (Idx0(node) <= Idx1(node)) =>
                    TopNumber(out, "start") <= TopNumber(out, "end")

\* an identifier at Idx 1..2 went out as start 0, end 1
C7_Witness ==
    /\ serPc = "done"
    /\ node.kind = "Identifier"
    /\ node.idx0 = 1 /\ node.idx1 = 2
    /\ TopNumber(out, "start") = 0
    /\ TopNumber(out, "end") = 1

\* C8: every object of the output that has a "type" also has a "start" and
\* an "end".
C8_EveryNodeHasStartAndEnd ==
    serPc = "done" =>
        \A i \in Objects(out) :
            "type" \in KeysOf(out, i) => {"start", "end"} \subseteq KeysOf(out, i)

\* the optional children of a node: the key each is written under and the
\* child, Nil when the source has none
OptionalChildren(n) ==
    CASE n.kind = "IfStatement" -> {<<"alternate", n.Alternate>>}
      [] n.kind = "VariableDeclarator" -> {<<"init", n.Initializer>>}
      [] n.kind = "ForStatement" -> {<<"test", n.Test>>, <<"update", n.Update>>}
      [] n.kind \in {"ReturnStatement", "YieldExpression"} ->
            {<<"argument", n.Argument>>}
      [] n.kind \in {"BreakStatement", "ContinueStatement"} -> {<<"label", n.Label>>}
      [] n.kind = "TryStatement" ->
            {<<"handler", n.Catch>>, <<"finalizer", n.Finally>>}
      [] n.kind = "CatchStatement" ->
            {<<"param", IF n.Parameter = Nil THEN Nil ELSE n.Parameter.Target>>}
      [] n.kind = "FunctionLiteral" -> {<<"id", n.Name>>}
      [] n.kind = "FunctionDeclaration" -> {<<"id", n.Function.Name>>}
      [] n.kind = "ClassLiteral" ->
            {<<"id", n.Name>>, <<"superClass", n.SuperClass>>}
      [] n.kind = "ClassDeclaration" ->
            {<<"id", n.Class.Name>>, <<"superClass", n.Class.SuperClass>>}
      [] OTHER -> {}

\* the elements of an array literal or pattern, Nil for a hole
ElementsOf(n) ==
    CASE n.kind = "ArrayLiteral" -> n.Value
      [] n.kind = "ArrayPattern" -> n.Elements
      [] OTHER -> <<>>

\* the value that starts at i is the one token null
IsNullAt(o, i) == o[i] = L("null") /\ SkipValue(o, i) = i + 1

\* C13: an absent optional child (else branch, initializer, for-loop test
\* and update, return/yield argument, break/continue label, catch handler,
\* catch parameter, finalizer, function or class name, super class) is
\* written as its key with the value null, never by leaving the key out and
\* never as a node; a child that is present is written as a node; a hole of
\* an array literal or pattern is written as null at its own index, the
\* other elements keeping theirs.
C13_AbsentChildIsNull ==
    serPc = "done" =>
        /\ \A oc \in OptionalChildren(node) :
              /\ oc[1] \in KeysOf(out, 1)
              /\ LET v == ValueIndex(out, 1, oc[1])
                 IN  IF oc[2] = Nil THEN IsNullAt(out, v)
                     ELSE SubSeq(out, v, SkipValue(out, v) - 1) = serialize(oc[2])
        /\ node.kind \in {"ArrayLiteral", "ArrayPattern"} =>
              LET el == Elements(out, ValueIndex(out, 1, "elements"))
                  list == ElementsOf(node)
              IN  /\ Len(el) >= Len(list)
                  /\ \A i \in 1..Len(list) :
                        IF list[i] = Nil THEN IsNullAt(out, el[i])
                        ELSE SubSeq(out, el[i], SkipValue(out, el[i]) - 1)
                                = serialize(list[i])

\* an array pattern with a hole at index 0 and an element at index 1
C13_Witness ==
    /\ serPc = "done"
    /\ node.kind = "ArrayPattern"
    /\ Len(node.Elements) = 2
    /\ node.Elements[1] = Nil
    /\ node.Elements[2] # Nil

\* the list a node writes as an array with a rest element: the key of the
\* array, what is written for each entry of the list, and the rest
ListWithRest(n) ==
    CASE n.kind \in {"FunctionLiteral", "ArrowFunctionLiteral"} ->
            [key |-> "params",
             entries |-> [i \in 1..Len(n.ParameterList.List) |->
                            serializeParam(n.ParameterList.List[i])],
             rest |-> n.ParameterList.Rest]
      [] n.kind = "FunctionDeclaration" ->
            [key |-> "params",
             entries |-> [i \in 1..Len(n.Function.ParameterList.List) |->
                            serializeParam(n.Function.ParameterList.List[i])],
             rest |-> n.Function.ParameterList.Rest]
      [] n.kind = "ArrayPattern" ->
            [key |-> "elements",
             entries |-> [i \in 1..Len(n.Elements) |-> serialize(n.Elements[i])],
             rest |-> n.Rest]
      [] n.kind = "ObjectPattern" ->
            [key |-> "properties",
             entries |-> [i \in 1..Len(n.Properties) |-> serialize(n.Properties[i])],
             rest |-> n.Rest]

HasListWithRest(n) ==
    n.kind \in {"FunctionLiteral", "ArrowFunctionLiteral", "FunctionDeclaration",
                "ArrayPattern", "ObjectPattern"}

\* the value that starts at i is an object whose "type" is RestElement
IsRestElementAt(o, i) ==
    /\ o[i] = LB
    /\ "type" \in KeysOf(o, i)
    /\ o[ValueIndex(o, i, "type")] = S("RestElement")

\* C23: in the "params" array of every function, arrow function and
\* function declaration and in the "elements"/"properties" array of every
\* array and object pattern, the entries of the list come in source order,
\* the first right after "[", each next one after exactly one comma, the
\* last followed by "]"; the rest element, when the node has one, is the
\* last entry and the only RestElement of the array, and without one the
\* array has no RestElement.
C23_ListsInOrderRestLast ==
    (serPc = "done" /\ HasListWithRest(node)) =>
        LET l == ListWithRest(node)
            a == ValueIndex(out, 1, l.key)
            el == Elements(out, a)
            n == Len(l.entries)
            end(k) == SkipValue(out, el[k])
        IN  /\ out[a] = LK
            /\ Len(el) = n + (IF l.rest # Nil THEN 1 ELSE 0)
            /\ \A k \in 1..Len(el) : end(k) > el[k]
            /\ Len(el) = 0 => out[a + 1] = RK
            /\ Len(el) > 0 => el[1] = a + 1 /\ out[end(Len(el))] = RK
            /\ \A k \in 1..(Len(el) - 1) : out[end(k)] = CM /\ el[k + 1] = end(k) + 1
            /\ \A k \in 1..n : SubSeq(out, el[k], end(k) - 1) = l.entries[k]
            /\ \A k \in 1..n : ~IsRestElementAt(out, el[k])
            /\ l.rest # Nil =>
                    /\ IsRestElementAt(out, el[n + 1])
                    /\ LET v == ValueIndex(out, el[n + 1], "argument")
                       IN  SubSeq(out, v, SkipValue(out, v) - 1) = serialize(l.rest)

\* an arrow function with no parameter but a rest element, (...a) => a: the
\* rest element has gone out first in the array, with no comma before it
C23_Witness ==
    /\ serPc = "done"
    /\ node.kind = "ArrowFunctionLiteral"
    /\ Len(node.ParameterList.List) = 0
    /\ node.ParameterList.Rest # Nil
    /\ out[ValueIndex(out, 1, "params") + 1] = LB
    /\ IsRestElementAt(out, ValueIndex(out, 1, "params") + 1)

\* the tokens writeOperator is asked about: those of the table and two
\* that fall to t.String()
WrittenTokens == OperatorTokens \cup {"Comma", "Arrow"}

\* the assignment operators of ECMAScript: "=", the compound ones, which
\* are the texts operatorStrings holds for the ...Assign tokens, and the
\* three logical ones
AssignmentOperators ==
    {operatorStrings(t) :
        t \in {"Assign", "AddAssign", "SubtractAssign", "MultiplyAssign",
               "ExponentAssign", "QuotientAssign", "RemainderAssign", "AndAssign",
               "OrAssign", "ExclusiveOrAssign", "ShiftLeftAssign", "ShiftRightAssign",
               "UnsignedShiftRightAssign"}}
        \cup {<<38, 38, 61>>, <<124, 124, 61>>, <<63, 63, 61>>}

\* the operator of the outermost object of the output, decoded
OperatorOut == JsonString(out, ValueIndex(out, 1, "operator"))

\* C24: writeOperator writes a different string for every two different
\* tokens, and the string it writes for the operator of a binary, unary or
\* update expression decodes to that operator's text; for every
\* AssignExpression the operator written is an assignment operator of
\* ECMAScript: "=" for token.Assign, else the text of the node's operator
\* followed by one "=".
C24_OperatorIdentityIsPreserved ==
    serPc = "done" =>
        /\ node.kind \in {"BinaryExpression", "UnaryExpression", "UpdateExpression"} =>
                /\ OperatorOut = Bytes(token_Text(node.Operator))
                /\ \A t \in WrittenTokens \ {node.Operator} :
                        /\ writeOperator(t) # writeOperator(node.Operator)
                        /\ JsonString(writeOperator(t), 1) # OperatorOut
        /\ node.kind = "AssignExpression" =>
                /\ "operator" \in KeysOf(out, 1)
                /\ \E op \in AssignmentOperators : OperatorOut = Bytes(op)
                /\ node.Operator = "Assign" => OperatorOut = Bytes(<<61>>)
                /\ node.Operator # "Assign" =>
                        OperatorOut = Bytes(token_Text(node.Operator) \o <<61>>)

\* a >>>= a: the node holds the shift operator and ">>>=" went out
C24_Witness ==
    /\ serPc = "done"
    /\ node.kind = "AssignExpression"
    /\ node.Operator = "UnsignedShiftRight"
    /\ OperatorOut = Bytes(<<62, 62, 62, 61>>)

\* what writeInt appends for the position of a span read that panics: no
\* read that returns gives a number below 0
PanickedPosition == L(Itoa(toESTreePos(PanicIdx)))

\* the objects of the output written for a case without consequent
EmptyCases(o) ==
    {i \in Objects(o) :
        /\ "type" \in KeysOf(o, i)
        /\ o[ValueIndex(o, i, "type")] = S("SwitchCase")
        /\ Elements(o, ValueIndex(o, i, "consequent")) = <<>>}

NumGoroutines == 2      \* goroutines calling Serialize
MaxSerializers == 2     \* Serializers that the pool's New makes

Goroutines == 1..NumGoroutines

PoolNodes == {IdA, EmptyStatement(1, 2), Program(<<>>)}

NoString == [s |-> 0, len |-> 0]

\* the bytes of a string made by unsafe.String over the array of buffer s
StringBytes(bufs, x) == SubSeq(bufs[x.s].mem, 1, x.len)

\* s := serializerPool.Get(): a Serializer of the pool ...
GetPooled(g) ==
    /\ calls[g].pc = "Get"
    /\ \E s \in serializerPool :
        /\ serializerPool' = serializerPool \ {s}
        /\ calls' = [calls EXCEPT ![g].pc = "reset", ![g].s = s]
    /\ UNCHANGED <<buffers, notPoolVars>>

\* ... or, the pool giving none, a new one from New
GetNew(g) ==
    /\ calls[g].pc = "Get"
    /\ Len(buffers) < MaxSerializers
    /\ buffers' = Append(buffers, [mem |-> <<>>, len |-> 0])
    /\ calls' = [calls EXCEPT ![g].pc = "reset", ![g].s = Len(buffers) + 1]
    /\ UNCHANGED <<serializerPool, notPoolVars>>

\* s.out = s.out[:0]
Reset(g) ==
    /\ calls[g].pc = "reset"
    /\ buffers' = [buffers EXCEPT ![calls[g].s].len = 0]
    /\ calls' = [calls EXCEPT ![g].pc = "visit"]
    /\ UNCHANGED <<serializerPool, notPoolVars>>

\* node.VisitWith(s): the appends overwrite the array from s.out's length on
Visit(g) ==
    /\ calls[g].pc = "visit"
    /\ LET b == buffers[calls[g].s]
           written == VisitWith(calls[g].node)
           end == b.len + Len(written)
       IN  buffers' = [buffers EXCEPT ![calls[g].s] =
                [mem |-> SubSeq(b.mem, 1, b.len) \o written
                            \o SubSeq(b.mem, end + 1, Len(b.mem)),
                 len |-> end]]
    /\ calls' = [calls EXCEPT ![g].pc = "String"]
    /\ UNCHANGED <<serializerPool, notPoolVars>>

\* result := s.String()
String(g) ==
    /\ calls[g].pc = "String"
    /\ calls' = [calls EXCEPT ![g].pc = "Put",
                              ![g].result = [s |-> calls[g].s,
                                             len |-> buffers[calls[g].s].len]]
    /\ UNCHANGED <<serializerPool, buffers, notPoolVars>>

\* serializerPool.Put(s)
Put(g) ==
    /\ calls[g].pc = "Put"
    /\ serializerPool' = serializerPool \cup {calls[g].s}
    /\ calls' = [calls EXCEPT ![g].pc = "return"]
    /\ UNCHANGED <<buffers, notPoolVars>>

\* return result: the caller reads the string it is handed
Return(g) ==
    /\ calls[g].pc = "return"
    /\ calls' = [calls EXCEPT ![g].pc = "done",
                              ![g].returned = StringBytes(buffers, calls[g].result)]
    /\ UNCHANGED <<serializerPool, buffers, notPoolVars>>

InitPool ==
    /\ StrIdle
    /\ serializerPool = {}
    /\ buffers = <<>>
    /\ calls \in [Goroutines ->
            {[pc |-> "Get", node |-> n, s |-> 0, result |-> NoString, returned |-> <<>>] :
                n \in PoolNodes}]
    /\ ErrIdle
    /\ SerIdle
    /\ GoIdle
    /\ ResIdle
    /\ JsIdle

NextPool ==
    \E g \in Goroutines :
        \/ GetPooled(g)
        \/ GetNew(g)
        \/ Reset(g)
        \/ Visit(g)
        \/ String(g)
        \/ Put(g)
        \/ Return(g)

SpecPool == InitPool /\ [][NextPool]_vars

\* the goroutines that hold a Serializer: between Get and Put
Holding == {g \in Goroutines : calls[g].pc \in {"reset", "visit", "String", "Put"}}

\* C5: under every interleaving of concurrent Serialize calls, a Serializer
\* is held by at most one call between Get and Put, and each call returns
\* exactly the serialization of its own node.
C5_PoolIsSafeForConcurrentCalls ==
    /\ \A g, h \in Holding : g # h => calls[g].s # calls[h].s
    /\ \A g \in Goroutines :
        calls[g].pc = "done" => calls[g].returned = VisitWith(calls[g].node)

\* C17: the string that a completed Serialize call returned keeps its
\* content across every later step of every Serialize call, of the same
\* goroutine's successor or of another goroutine: the bytes that the
\* caller reads in it never change.
C17_ReturnedStringKeepsContent ==
    [][\A g \in Goroutines :
            calls[g].pc = "done" =>
                StringBytes(buffers', calls[g].result)
                    = StringBytes(buffers, calls[g].result)]_vars

(***************************************************************************)
(*               goFastParse: THE FUNCTION OF THE GO BUILD                 *)
(* parseJS of the WASM glue.  Packages parser and resolver are outside the *)
(* modelled files: ParseFile is a table of small sources with the tree and *)
(* the errors the parser has for each, Resolve stamps the tree it is given.*)
(***************************************************************************)

\* ---- JavaScript values, as syscall/js hands them over
JsUndefined == [t |-> "undefined"]
JsNull == [t |-> "null"]
JsBoolean(b) == [t |-> "boolean", bool |-> b]
JsNumber(n) == [t |-> "number", num |-> n]
JsString(s) == [t |-> "string", str |-> s]
\* an object, with what its property `resolve` holds
JsObject(resolve) == [t |-> "object", resolve |-> resolve]

\* ---- what parseJS returns, as JavaScript receives it
\* a Go string: a JavaScript string of the same text
GoString(text) == [t |-> "string", text |-> text]
\* a map[string]any{"error": msg}: a JavaScript object
GoErrorMap(msg) == [t |-> "object", error |-> msg]

\* the sources of the model: bytes, the tree the parser builds and the
\* errors it reports (Idx and message of each)
Parsed(source) ==
    CASE source = "" ->
            [bytes |-> <<>>, program |-> Program(<<>>), errs |-> <<>>]
      [] source = "a" ->
            [bytes |-> <<97>>, program |-> Program(<<ExprStmt(IdA)>>), errs |-> <<>>]
      [] source = "a;;" ->
            [bytes |-> <<97, 59, 59>>,
             program |-> Program(<<ExpressionStatement(IdA, 1, 3), EmptyStatement(3, 4)>>),
             errs |-> <<>>]
      [] source = "1e999" ->
            [bytes |-> <<49, 101, 57, 57, 57>>,
             program |-> Program(<<ExprStmt(
                    NumberLiteral(PosInf, TRUE, <<49, 101, 57, 57, 57>>, 1, 6))>>),
             errs |-> <<>>]
      [] source = "function a(...a){}" ->
            [bytes |-> <<102, 117, 110, 99, 116, 105, 111, 110, 32, 97, 40, 46, 46, 46,
                         97, 41, 123, 125>>,
             program |-> Program(<<FunctionDeclaration(
                    FunctionLiteral(Identifier(NameA, 0, 10, 11),
                        ParameterList(<<>>, Identifier(NameA, 0, 15, 16)),
                        BlockStatement(<<>>, 0, 17, 19), FALSE, FALSE, 0, 1, 19))>>),
             errs |-> <<>>]
      [] source = "a a" ->
            [bytes |-> <<97, 32, 97>>, program |-> Program(<<ExprStmt(IdA)>>),
             errs |-> << <<3, "Unexpected identifier">> >>]
      [] source = "a\n(" ->
            [bytes |-> <<97, NL, 40>>, program |-> Program(<<ExprStmt(IdA)>>),
             errs |-> << <<4, "Unexpected end of input">> >>]
      [] source = "a @" ->
            [bytes |-> <<97, 32, 64>>, program |-> Program(<<>>),
             errs |-> << <<3, "Unexpected token ILLEGAL">>,
                         <<3, "Unexpected token ILLEGAL">> >>]

GoSources == {"", "a", "a;;", "1e999", "function a(...a){}", "a a", "a\n(", "a @"}

\* the ErrorList after p.error has run for errs[1..k]
RECURSIVE ErrorsOf(_, _, _)
ErrorsOf(bytes, errs, k) ==
    IF k = 0 THEN <<>>
    ELSE ErrorList_Add(ErrorsOf(bytes, errs, k - 1), bytes, errs[k][1], errs[k][2])

\* parser.ParseFile(source): the tree and p.errors.Err()
ParseFile(source) ==
    LET p == Parsed(source)
        list == ErrorsOf(p.bytes, p.errs, Len(p.errs))
    IN  [program |-> p.program, errors |-> list, err |-> ErrorList_Err(list)]

\* the identifier of the global scope
GlobalScope == 1

\* ---- the resolver's scope table: scopes[id] is the scope with identifier
\* id, its parent (0 above the global scope) and the names bound in it
NewScope(scopes, parent, names) ==
    Append(scopes, [parent |-> parent, names |-> names])

Declare(scopes, id, name) == [scopes EXCEPT ![id].names = @ \cup {name}]

\* a version that walks the chain to its end and takes the outermost scope
\* that binds the name
RECURSIVE Lookup_outermost(_, _, _)
Lookup_outermost(scopes, id, name) ==
    IF id = 0 THEN GlobalScope
    ELSE LET outer == Lookup_outermost(scopes, scopes[id].parent, name)
         IN  IF name \in scopes[outer].names THEN outer
             ELSE IF name \in scopes[id].names THEN id
             ELSE GlobalScope

\* the scope that a reference to name resolves to from the scope id: the
\* nearest one outward that binds it, the global scope when none does
RECURSIVE Lookup(_, _, _)
Lookup(scopes, id, name) ==
    IF id = 0 THEN GlobalScope
    ELSE IF name \in scopes[id].names THEN id
    ELSE Lookup(scopes, scopes[id].parent, name)

\* the var and function declarations of a statement, nested function
\* bodies left out: the names that are hoisted to the enclosing function
RECURSIVE Hoisted(_)
Hoisted(n) ==
    CASE n.kind = "VariableDeclaration" ->
            IF n.Token = "var"
            THEN {n.List[i].Target.Name : i \in 1..Len(n.List)}
            ELSE {}
      [] n.kind = "FunctionDeclaration" ->
            IF n.Function.Name = Nil THEN {} ELSE {n.Function.Name.Name}
      [] n.kind = "BlockStatement" ->
            UNION {Hoisted(n.List[i]) : i \in 1..Len(n.List)}
      [] OTHER -> {}

HoistedIn(list) == UNION {Hoisted(list[i]) : i \in 1..Len(list)}

ParamNames(pl) ==
    {pl.List[i].Target.Name : i \in 1..Len(pl.List)}
        \cup (IF pl.Rest = Nil THEN {} ELSE {pl.Rest.Name})

\* the walk of the resolver below the node n, which stands in the scope
\* cur: the node with its stamps and the scope table after the walk
RECURSIVE ResolveIn(_, _, _)
RECURSIVE ResolveList(_, _, _, _)
RECURSIVE ResolveDeclarators(_, _, _, _, _)
ResolveList(list, scopes, cur, i) ==
    IF i > Len(list) THEN [n |-> <<>>, scopes |-> scopes]
    ELSE LET head == ResolveIn(list[i], scopes, cur)
             rest == ResolveList(list, head.scopes, cur, i + 1)
         IN  [n |-> <<head.n>> \o rest.n, scopes |-> rest.scopes]

\* let and const register in the scope of the declaration when the walk
\* reaches them; var has been registered when its function was entered
ResolveDeclarators(list, tok, scopes, cur, i) ==
    IF i > Len(list) THEN [n |-> <<>>, scopes |-> scopes]
    ELSE LET d == list[i]
             declared == IF tok = "var" THEN scopes
                         ELSE Declare(scopes, cur, d.Target.Name)
             init == IF d.Initializer = Nil THEN [n |-> Nil, scopes |-> declared]
                     ELSE ResolveIn(d.Initializer, declared, cur)
             head == [d EXCEPT
                        !.Target = [@ EXCEPT !.ScopeContext =
                                        Lookup(init.scopes, cur, d.Target.Name)],
                        !.Initializer = init.n]
             rest == ResolveDeclarators(list, tok, init.scopes, cur, i + 1)
         IN  [n |-> <<head>> \o rest.n, scopes |-> rest.scopes]

ResolveIn(n, scopes, cur) ==
    CASE n.kind = "Identifier" ->
            [n |-> [n EXCEPT !.ScopeContext = Lookup(scopes, cur, n.Name)],
             scopes |-> scopes]
      [] n.kind = "ExpressionStatement" ->
            LET r == ResolveIn(n.Expression, scopes, cur)
            IN  [n |-> [n EXCEPT !.Expression = r.n], scopes |-> r.scopes]
      [] n.kind = "ReturnStatement" ->
            IF n.Argument = Nil THEN [n |-> n, scopes |-> scopes]
            ELSE LET r == ResolveIn(n.Argument, scopes, cur)
                 IN  [n |-> [n EXCEPT !.Argument = r.n], scopes |-> r.scopes]
      [] n.kind = "VariableDeclaration" ->
            LET r == ResolveDeclarators(n.List, n.Token, scopes, cur, 1)
            IN  [n |-> [n EXCEPT !.List = r.n], scopes |-> r.scopes]
      [] n.kind = "BlockStatement" ->
            LET entered == NewScope(scopes, cur, {})
                id == Len(entered)
                r == ResolveList(n.List, entered, id, 1)
            IN  [n |-> [n EXCEPT !.ScopeContext = id, !.List = r.n],
                 scopes |-> r.scopes]
      [] n.kind = "FunctionDeclaration" ->
            LET r == ResolveIn(n.Function, scopes, cur)
                fn == IF r.n.Name = Nil THEN r.n
                      ELSE [r.n EXCEPT !.Name.ScopeContext =
                                Lookup(scopes, cur, r.n.Name.Name)]
            IN  [n |-> [n EXCEPT !.Function = fn], scopes |-> r.scopes]
      [] n.kind = "FunctionLiteral" ->
            LET entered == NewScope(scopes, cur,
                                ParamNames(n.ParameterList) \cup HoistedIn(n.Body.List))
                id == Len(entered)
                params == ResolveDeclarators(n.ParameterList.List, "var", entered, id, 1)
                body == ResolveIn(n.Body, params.scopes, id)
            IN  [n |-> [n EXCEPT
                          !.ScopeContext = id,
                          !.Name = IF @ = Nil THEN Nil ELSE [@ EXCEPT !.ScopeContext = id],
                          !.ParameterList =
                              [List |-> params.n,
                               Rest |-> IF @.Rest = Nil THEN Nil
                                        ELSE [@.Rest EXCEPT !.ScopeContext = id]],
                          !.Body = body.n],
                 scopes |-> body.scopes]
      [] OTHER -> [n |-> n, scopes |-> scopes]

\* resolver.Resolve(program): the program, stamped in place.  The global
\* scope is the first scope made.
Resolve(program) ==
    LET global == NewScope(<<>>, 0, HoistedIn(program.Body))
    IN  [program EXCEPT !.Body = ResolveList(@, global, GlobalScope, 1).n]

\* ---- the trees of the resolver's runs: the names x, x2 and f
NameX == <<120>>
NameX2 == <<120, 50>>
NameF == <<102>>

Ref(name) == Identifier(name, 0, 1, 2)

Declaration(tok, name, init) ==
    VariableDeclaration(tok, <<VariableDeclarator(Ref(name), init, 1, 2)>>, 1, 2)

\* let x2 = x;  var x2;  return x2;  x2;  let x;
OuterStmts ==
    { Declaration("let", NameX2, Ref(NameX)),
      Declaration("var", NameX2, Nil),
      ReturnStatement(Ref(NameX2), 1, 2),
      ExprStmt(Ref(NameX2)),
      Declaration("let", NameX, Nil) }

\* let x2 = 1;  return x2;  var x;  x;
InnerStmts ==
    { Declaration("let", NameX2, NumberLiteral(IntValue(1), FALSE, <<>>, 1, 2)),
      ReturnStatement(Ref(NameX2), 1, 2),
      Declaration("var", NameX, Nil),
      ExprStmt(Ref(NameX)) }

\* function f(<params>){ <s1>; { <t1>; <t2>; } <s2>; }
FunctionF(params, s1, t1, t2, s2) ==
    FunctionDeclaration(FunctionLiteral(Ref(NameF), ParameterList(params, Nil),
        BlockStatement(<<s1, BlockStatement(<<t1, t2>>, 0, 1, 2), s2>>, 0, 1, 2),
        FALSE, FALSE, 0, 1, 2))

\* function f(x){ let x2 = x; { let x2 = 1; return x2; } return x2; }
ExampleProgram ==
    Program(<<FunctionF(<<VariableDeclarator(Ref(NameX), Nil, 1, 2)>>,
                Declaration("let", NameX2, Ref(NameX)),
                Declaration("let", NameX2, NumberLiteral(IntValue(1), FALSE, <<>>, 1, 2)),
                ReturnStatement(Ref(NameX2), 1, 2),
                ReturnStatement(Ref(NameX2), 1, 2))>>)

\* one function, and two blocks side by side after it
ResolverPrograms ==
    {Program(<<FunctionF(params, s1, t1, t2, s2)>>) :
        params \in {<<>>, <<VariableDeclarator(Ref(NameX), Nil, 1, 2)>>},
        s1 \in OuterStmts, t1 \in InnerStmts, t2 \in InnerStmts, s2 \in OuterStmts}
    \cup
    {Program(<<BlockStatement(<<t1, t2>>, 0, 1, 2), BlockStatement(<<t2, t1>>, 0, 1, 2),
               s>>) :
        t1 \in InnerStmts, t2 \in InnerStmts, s \in OuterStmts}

\* resolver.Resolve(tree), once
ResolveTree ==
    /\ resPc = "parsed"
    /\ tree' = Resolve(tree)
    /\ resPc' = "resolved"
    /\ UNCHANGED notResVars

InitResolver ==
    /\ StrIdle
    /\ tree \in ResolverPrograms
    /\ resPc = "parsed"
    /\ ErrIdle
    /\ SerIdle
    /\ PoolIdle
    /\ GoIdle
    /\ JsIdle

NextResolver == ResolveTree

SpecResolver == InitResolver /\ [][NextResolver]_vars

\* ---- reading the stamps of a resolved tree.  env is the chain of the
\* scopes around a node, outermost first: the stamp of each and the names
\* it has declared where the node stands.
Nearest(env, name) ==
    IF \E k \in 1..Len(env) : name \in env[k].names
    THEN env[CHOOSE k \in 1..Len(env) :
                /\ name \in env[k].names
                /\ \A j \in (k + 1)..Len(env) : name \notin env[j].names].id
    ELSE GlobalScope

\* the names a statement declares with let or const
LexicalNames(n) ==
    IF n.kind = "VariableDeclaration" /\ n.Token # "var"
    THEN {n.List[i].Target.Name : i \in 1..Len(n.List)}
    ELSE {}

Enter(env, id, names) == Append(env, [id |-> id, names |-> names])

DeclareHere(env, names) == [env EXCEPT ![Len(env)].names = @ \cup names]

\* every identifier below n carries the stamp of the nearest scope of env
\* that declares its name
RECURSIVE StampsAgree(_, _)
RECURSIVE StampsAgreeFrom(_, _, _)
StampsAgreeFrom(list, env, i) ==
    \/ i > Len(list)
    \/ LET here == DeclareHere(env, LexicalNames(list[i]))
       IN  StampsAgree(list[i], here) /\ StampsAgreeFrom(list, here, i + 1)

StampsAgree(n, env) ==
    CASE n.kind = "Identifier" -> n.ScopeContext = Nearest(env, n.Name)
      [] n.kind = "ExpressionStatement" -> StampsAgree(n.Expression, env)
      [] n.kind = "ReturnStatement" ->
            n.Argument = Nil \/ StampsAgree(n.Argument, env)
      [] n.kind = "VariableDeclaration" ->
            \A i \in 1..Len(n.List) :
                /\ StampsAgree(n.List[i].Target, env)
                /\ n.List[i].Initializer = Nil
                        \/ StampsAgree(n.List[i].Initializer, env)
      [] n.kind = "BlockStatement" ->
            StampsAgreeFrom(n.List, Enter(env, n.ScopeContext, {}), 1)
      [] n.kind = "FunctionDeclaration" ->
            /\ StampsAgree(n.Function.Name, env)
            /\ StampsAgree([n.Function EXCEPT !.Name = Nil], env)
      [] n.kind = "FunctionLiteral" ->
            LET inside == Enter(env, n.ScopeContext,
                                ParamNames(n.ParameterList) \cup HoistedIn(n.Body.List))
            IN  /\ \A i \in 1..Len(n.ParameterList.List) :
                        StampsAgree(n.ParameterList.List[i].Target, inside)
                /\ StampsAgree(n.Body, inside)
      [] OTHER -> TRUE

\* the stamps of the scopes below n: of each function and each block
RECURSIVE ScopeStamps(_)
RECURSIVE ScopeStampsOf(_, _)
ScopeStampsOf(list, i) ==
    IF i > Len(list) THEN <<>>
    ELSE ScopeStamps(list[i]) \o ScopeStampsOf(list, i + 1)

ScopeStamps(n) ==
    CASE n.kind = "BlockStatement" -> <<n.ScopeContext>> \o ScopeStampsOf(n.List, 1)
      [] n.kind = "FunctionDeclaration" -> ScopeStamps(n.Function)
      [] n.kind = "FunctionLiteral" -> <<n.ScopeContext>> \o ScopeStamps(n.Body)
      [] OTHER -> <<>>

\* no value occurs twice in the sequence
AllDifferent(q) == \A i, j \in 1..Len(q) : i # j => q[i] # q[j]

\* C15: after resolve has run on a tree, every identifier that is a
\* reference carries the scope identifier of the nearest enclosing scope,
\* walking outward from its position, that declares its name (a let where
\* it stands in its block, a var or function anywhere in its function, a
\* parameter), the global scope's when none does; every declared name
\* carries the identifier of the scope it is declared in; and different
\* scopes carry different identifiers, so that two bindings of one name in
\* different scopes differ in their identifiers.
C15_ReferencesCarryNearestScope ==
    resPc = "resolved" =>
        /\ StampsAgreeFrom(tree.Body,
                <<[id |-> GlobalScope, names |-> HoistedIn(tree.Body)]>>, 1)
        /\ AllDifferent(<<GlobalScope>> \o ScopeStampsOf(tree.Body, 1))

\* function f(x){ let x2 = x; { let x2 = 1; return x2; } return x2; } has
\* been resolved: the two x2 bindings differ, and each return refers to the
\* x2 of its own block
C15_Witness ==
    /\ resPc = "resolved"
    /\ tree = Resolve(ExampleProgram)
    /\ LET body == tree.Body[1].Function.Body
           outerX2 == body.List[1].List[1].Target.ScopeContext
           innerX2 == body.List[2].List[1].List[1].Target.ScopeContext
       IN  /\ outerX2 # innerX2
           /\ outerX2 = body.ScopeContext
           /\ innerX2 = body.List[2].ScopeContext
           /\ body.List[2].List[2].Argument.ScopeContext = innerX2
           /\ body.List[3].Argument.ScopeContext = outerX2
           /\ body.List[1].List[1].Initializer.ScopeContext
                    = tree.Body[1].Function.ScopeContext

\* the pieces errorJSON appends for one rune of msg
errorJSON_Rune(c) ==
    IF c.k # "byte" THEN <<c>>
    ELSE CASE c.b = QUOTE -> <<L("\\\"")>>
           [] c.b = BACKSLASH -> <<L("\\\\")>>
           [] c.b = NL -> <<L("\\n")>>
           [] c.b = CR -> <<L("\\r")>>
           [] c.b = TAB -> <<L("\\t")>>
           [] OTHER -> <<c>>

RECURSIVE errorJSON_Escaped(_, _)
errorJSON_Escaped(msg, i) ==
    IF i > Len(msg) THEN <<>>
    ELSE errorJSON_Rune(msg[i]) \o errorJSON_Escaped(msg, i + 1)

\* `{"error":"` + escaped + `"}`
errorJSON(msg) ==
    <<LB, S("error"), CL, B(QUOTE)>> \o errorJSON_Escaped(msg, 1) \o <<B(QUOTE), RB>>

\* len(args) >= 2, args[1] an object, its resolve a boolean: that boolean
ShouldResolve(args) ==
    /\ Len(args) >= 2
    /\ args[2].t = "object"
    /\ args[2].resolve.t = "boolean"
    /\ args[2].resolve.bool

\* fmt.Sprintf("internal error: %v", r) of a recovered panic
InternalError ==
    <<T("internal error: "),
      T("runtime error: invalid memory address or nil pointer dereference")>>

Callees == {"ParseFile", "Resolve", "Serialize"}

MaxTrees == 3       \* most trees that the calls of one run parse

\* a version that goes on to resolve and serialize whatever ParseFile
\* returned, error or not
parseJS_ignoresErr(args, panicAt) ==
    IF Len(args) < 1
    THEN [result |-> GoString(errorJSON(<<T("no source code provided")>>)),
          trace |-> <<>>]
    ELSE LET parsed == ParseFile(args[1].str)
             program == IF ShouldResolve(args) THEN Resolve(parsed.program)
                        ELSE parsed.program
         IN  [result |-> GoString(Serialize(program)),
              trace |-> IF ShouldResolve(args)
                        THEN <<"ParseFile", "Resolve", "Serialize">>
                        ELSE <<"ParseFile", "Serialize">>]

\* a version without the deferred recover: a panic of a callee leaves parseJS
\* the way it came in
parseJS_propagates(args, panicAt) ==
    IF Len(args) < 1
    THEN [result |-> GoString(errorJSON(<<T("no source code provided")>>)),
          trace |-> <<>>]
    ELSE LET parsed == ParseFile(args[1].str)
             propagated == [t |-> "throw"]
         IN  IF panicAt = "ParseFile"
             THEN [result |-> propagated, trace |-> <<"ParseFile">>]
             ELSE IF parsed.err
             THEN [result |-> GoString(errorJSON(ErrorList_Error(parsed.errors))),
                   trace |-> <<"ParseFile">>]
             ELSE IF ShouldResolve(args) /\ panicAt = "Resolve"
             THEN [result |-> propagated, trace |-> <<"ParseFile", "Resolve">>]
             ELSE LET program == IF ShouldResolve(args) THEN Resolve(parsed.program)
                                 ELSE parsed.program
                      trace == IF ShouldResolve(args)
                               THEN <<"ParseFile", "Resolve", "Serialize">>
                               ELSE <<"ParseFile", "Serialize">>
                  IN  IF panicAt = "Serialize"
                      THEN [result |-> propagated, trace |-> trace]
                      ELSE [result |-> GoString(Serialize(program)), trace |-> trace]

\* a version that resolves the program once more before it serializes it
parseJS_resolvesAgain(args, panicAt) ==
    IF Len(args) < 1
    THEN [result |-> GoString(errorJSON(<<T("no source code provided")>>)),
          trace |-> <<>>]
    ELSE LET parsed == ParseFile(args[1].str)
             recovered == GoString(errorJSON(InternalError))
         IN  IF panicAt = "ParseFile"
             THEN [result |-> recovered, trace |-> <<"ParseFile">>]
             ELSE IF parsed.err
             THEN [result |-> GoString(errorJSON(ErrorList_Error(parsed.errors))),
                   trace |-> <<"ParseFile">>]
             ELSE IF ShouldResolve(args) /\ panicAt = "Resolve"
             THEN [result |-> recovered, trace |-> <<"ParseFile", "Resolve">>]
             ELSE LET program == IF ShouldResolve(args)
                                 THEN Resolve(Resolve(parsed.program))
                                 ELSE parsed.program
                      trace == IF ShouldResolve(args)
                               THEN <<"ParseFile", "Resolve", "Resolve", "Serialize">>
                               ELSE <<"ParseFile", "Serialize">>
                  IN  IF panicAt = "Serialize"
                      THEN [result |-> recovered, trace |-> trace]
                      ELSE [result |-> GoString(Serialize(program)), trace |-> trace]

\* parseJS(this, args): what it returns and the callees it invokes, when
\* the callee panicAt panics on being invoked ("none": no callee panics)
parseJS(args, panicAt) ==
    IF Len(args) < 1
    THEN [result |-> GoString(errorJSON(<<T("no source code provided")>>)),
          trace |-> <<>>]
    ELSE LET source == args[1].str
             shouldResolve == ShouldResolve(args)
             parsed == ParseFile(source)
             recovered == GoString(errorJSON(InternalError))
         IN  IF panicAt = "ParseFile"
             THEN [result |-> recovered, trace |-> <<"ParseFile">>]
             ELSE IF parsed.err
             THEN [result |-> GoString(errorJSON(ErrorList_Error(parsed.errors))),
                   trace |-> <<"ParseFile">>]
             ELSE IF shouldResolve /\ panicAt = "Resolve"
             THEN [result |-> recovered, trace |-> <<"ParseFile", "Resolve">>]
             ELSE LET program == IF shouldResolve THEN Resolve(parsed.program)
                                 ELSE parsed.program
                      trace == IF shouldResolve
                               THEN <<"ParseFile", "Resolve", "Serialize">>
                               ELSE <<"ParseFile", "Serialize">>
                  IN  IF panicAt = "Serialize"
                      THEN [result |-> recovered, trace |-> trace]
                      ELSE [result |-> GoString(Serialize(program)), trace |-> trace]

\* the second argument of a call
OptionValues ==
    {JsUndefined, JsNull, JsBoolean(TRUE), JsNumber(1), JsString("resolve")}
        \cup {JsObject(r) : r \in {JsUndefined, JsNull, JsBoolean(TRUE), JsBoolean(FALSE),
                                   JsNumber(1), JsString("true")}}

GoArgs ==
    {<<>>} \cup {<<JsString(s)>> : s \in GoSources}
        \cup {<<JsString(s), o>> : s \in GoSources, o \in OptionValues}

\* the heap after a call with this trace: a ParseFile that returns makes
\* one tree, the call's program, and each Resolve of the call is handed it
HeapAfter(heap, trace, panicAt) ==
    LET made == IF Len(trace) > 0 /\ panicAt # "ParseFile" THEN 1 ELSE 0
        program == heap.trees + made
        resolves == SelectSeq(trace, LAMBDA c : c = "Resolve")
    IN  [trees |-> program,
         resolved |-> heap.resolved \o [k \in 1..Len(resolves) |-> program]]

\* parseJS over the calls of the model
GoCalls ==
    [args \in GoArgs, panicAt \in Callees \cup {"none"} |-> parseJS(args, panicAt)]

\* one call of goFastParse
GoFastParse(args, panicAt) ==
    /\ goHeap.trees < MaxTrees
    /\ goArgs' = args
    /\ goPanic' = panicAt
    /\ goTrace' = GoCalls[args, panicAt].trace
    /\ goResult' = GoCalls[args, panicAt].result
    /\ goHeap' = HeapAfter(goHeap, GoCalls[args, panicAt].trace, panicAt)
    /\ UNCHANGED notGoVars

InitGo ==
    /\ StrIdle
    /\ GoIdle
    /\ ResIdle
    /\ ErrIdle
    /\ SerIdle
    /\ PoolIdle
    /\ JsIdle

NextGo == \E args \in GoArgs, panicAt \in Callees \cup {"none"} : GoFastParse(args, panicAt)

SpecGo == InitGo /\ [][NextGo]_vars

\* C16: in every sequence of goFastParse calls, each call runs
\* resolver.Resolve at most once, only after its ParseFile has returned
\* without error, and on the Program that this ParseFile has just made, so
\* that no tree is handed to Resolve twice.
C16_ResolveAtMostOncePerTree ==
    /\ Cardinality({k \in 1..Len(goTrace) : goTrace[k] = "Resolve"}) <= 1
    /\ \A k \in 1..Len(goTrace) :
            goTrace[k] = "Resolve" =>
                /\ k = 2
                /\ goTrace[1] = "ParseFile"
                /\ goPanic # "ParseFile"
                /\ ~ParseFile(goArgs[1].str).err
                /\ Len(goHeap.resolved) > 0
                /\ goHeap.resolved[Len(goHeap.resolved)] = goHeap.trees
    /\ \A i, j \in 1..Len(goHeap.resolved) :
            i # j => goHeap.resolved[i] # goHeap.resolved[j]
    /\ \A i \in 1..Len(goHeap.resolved) : goHeap.resolved[i] \in 1..goHeap.trees

\* two calls have each resolved the tree they parsed, and a call between
\* them has parsed a tree without resolving it
C16_Witness ==
    /\ goHeap.trees = 3
    /\ goHeap.resolved = <<1, 3>>
    /\ goTrace = <<"ParseFile", "Resolve", "Serialize">>

\* ---- observers of one goFastParse call
goReturned == goResult # NoResult
\* the result read as JSON: a Program object, an object with an error member
IsProgramText(r) ==
    /\ r.t = "string"
    /\ "type" \in KeysOf(r.text, 1)
    /\ r.text[ValueIndex(r.text, 1, "type")] = S("Program")
IsErrorText(r) == r.t = "string" /\ "error" \in KeysOf(r.text, 1)
HasKey(o, key) == \E i \in Objects(o) : key \in KeysOf(o, i)

\* C1: every call of goFastParse with a source argument returns either the
\* serialized Program or an error object with an "error" member, one and
\* not the other; and when ParseFile returns an error, neither Resolve nor
\* Serialize is invoked and what is returned is the error object.
C1_ProgramOrErrorNeverBoth ==
    (goReturned /\ Len(goArgs) >= 1) =>
        /\ IsProgramText(goResult) # IsErrorText(goResult)
        /\ IsProgramText(goResult) =>
                goTrace[Len(goTrace)] = "Serialize" /\ ~ParseFile(goArgs[1].str).err
        /\ (goPanic # "ParseFile" /\ ParseFile(goArgs[1].str).err) =>
                /\ goTrace = <<"ParseFile">>
                /\ IsErrorText(goResult)

\* a source with a syntax error came back as an error object, after
\* ParseFile alone
C1_Witness ==
    /\ goReturned
    /\ Len(goArgs) >= 1
    /\ goPanic = "none"
    /\ ParseFile(goArgs[1].str).err
    /\ goTrace = <<"ParseFile">>
    /\ IsErrorText(goResult)
    /\ ~IsProgramText(goResult)

\* the second argument asks for scope resolution: an object whose resolve
\* is the boolean true
ResolveRequested(args) ==
    /\ Len(args) >= 2
    /\ args[2] = JsObject(JsBoolean(TRUE))

\* C9: for every call whose second argument is missing, is not an object,
\* or has a resolve that is not the boolean true, the resolver is not
\* invoked and no object of the output has a "scopeContext" member; and
\* when the resolver was invoked, every Identifier object of the output
\* has one.
C9_ScopeContextOnlyWhenRequested ==
    goReturned =>
        /\ ~ResolveRequested(goArgs) =>
                /\ \A k \in 1..Len(goTrace) : goTrace[k] # "Resolve"
                /\ ~HasKey(goResult.text, "scopeContext")
        /\ (ResolveRequested(goArgs) /\ IsProgramText(goResult)) =>
                /\ goTrace = <<"ParseFile", "Resolve", "Serialize">>
                /\ \A i \in Objects(goResult.text) :
                        (/\ "type" \in KeysOf(goResult.text, i)
                         /\ goResult.text[ValueIndex(goResult.text, i, "type")] = S("Identifier"))
                            => "scopeContext" \in KeysOf(goResult.text, i)

\* resolve: 1 is not the boolean true: the identifier went out unstamped
C9_Witness ==
    /\ goReturned
    /\ goArgs = <<JsString("a"), JsObject(JsNumber(1))>>
    /\ goTrace = <<"ParseFile", "Serialize">>
    /\ IsProgramText(goResult)
    /\ HasKey(goResult.text, "name")
    /\ ~HasKey(goResult.text, "scopeContext")

(***************************************************************************)
(*                 THE OTHER GO BUILDS OF goFastParse                      *)
(***************************************************************************)
\* a panic that nothing recovers ends the Go program: the call throws
Thrown == [t |-> "throw"]

\* json.Marshal(program): an object with the exported fields of ast.Program
json_Marshal(program) ==
    <<LB, S("Body"), CL, LK>>
        \o Commas([i \in 1..Len(program.Body) |-> <<LB, RB>>]) \o <<RK, RB>>

\* the parseJS that returns maps for errors and marshals with encoding/json;
\* it recovers from no panic
parseJS_marshal(args, panicAt) ==
    IF Len(args) < 1
    THEN GoErrorMap(<<T("No source code provided")>>)
    ELSE LET parsed == ParseFile(args[1].str)
         IN  IF panicAt = "ParseFile" THEN Thrown
             ELSE IF parsed.err THEN GoErrorMap(ErrorList_Error(parsed.errors))
             ELSE IF ShouldResolve(args) /\ panicAt = "Resolve" THEN Thrown
             ELSE GoString(json_Marshal(
                    IF ShouldResolve(args) THEN Resolve(parsed.program)
                    ELSE parsed.program))

\* the parseJS that returns maps for errors and recovers from panics
parseJS_map(args, panicAt) ==
    IF Len(args) < 1
    THEN GoErrorMap(<<T("No source code provided")>>)
    ELSE LET parsed == ParseFile(args[1].str)
             shouldResolve == ShouldResolve(args)
             recovered == GoErrorMap(InternalError)
         IN  IF panicAt = "ParseFile" THEN recovered
             ELSE IF parsed.err THEN GoErrorMap(ErrorList_Error(parsed.errors))
             ELSE IF shouldResolve /\ panicAt = "Resolve" THEN recovered
             ELSE IF panicAt = "Serialize" THEN recovered
             ELSE GoString(Serialize(
                    IF shouldResolve THEN Resolve(parsed.program) ELSE parsed.program))

GoBuilds == {"marshal", "map", "errorJSON"}

\* what goFastParse(args) answers to JavaScript
GoAnswer(build, args, panicAt) ==
    CASE build = "marshal" -> parseJS_marshal(args, panicAt)
      [] build = "map" -> parseJS_map(args, panicAt)
      [] build = "errorJSON" -> parseJS(args, panicAt).result

(***************************************************************************)
(*              goFastParse CALLS, ONE AFTER THE OTHER                     *)
(* The calls of one WASM instance run one at a time and share the          *)
(* serializer pool.  A call is one step: parseJS from its entry to its     *)
(* return, the Get, the reset, the visit and the Put of Serialize          *)
(* included.  A panic inside Serialize comes after part of the output was  *)
(* written and before the Put.                                             *)
(***************************************************************************)
\* Serialize on the pool: s := Get() (a pooled Serializer, else a new one),
\* s.out = s.out[:0], the visit appends `written` (only its first `cut`
\* pieces when the visit panics), result := s.String(), Put(s).  A visit
\* that panics leaves before String and Put.
Serialize_pooled(pool, bufs, written, panics, cut) ==
    LET s == IF pool # {} THEN CHOOSE x \in pool : TRUE ELSE Len(bufs) + 1
        got == IF pool # {} THEN bufs ELSE Append(bufs, [mem |-> <<>>, len |-> 0])
        appended == IF panics THEN SubSeq(written, 1, cut) ELSE written
        mem == appended \o SubSeq(got[s].mem, Len(appended) + 1, Len(got[s].mem))
        after == [got EXCEPT ![s] = [mem |-> mem, len |-> Len(appended)]]
    IN  [pool |-> IF panics THEN pool \ {s} ELSE pool \cup {s},
         bufs |-> after,
         result |-> [s |-> s, len |-> Len(appended)]]

\* the sources and options of these runs
SequentialArgs ==
    {<<>>} \cup {<<JsString(src)>> : src \in {"", "a", "a @"}}
        \cup {<<JsString(src), JsObject(JsBoolean(TRUE))>> : src \in {"a", "a;;"}}

\* where in its output a visit that panics stops
Cuts(written) == {0, Len(written) \div 2}

\* one call of goFastParse, from entry to return
ParseJS(args, panicAt) ==
    LET call == GoCalls[args, panicAt]
        serializes == Len(call.trace) > 0 /\ call.trace[Len(call.trace)] = "Serialize"
        written == GoCalls[args, "none"].result.text
    IN  /\ goHeap.trees < MaxTrees
        /\ goArgs' = args
        /\ goPanic' = panicAt
        /\ goTrace' = call.trace
        /\ goHeap' = HeapAfter(goHeap, call.trace, panicAt)
        /\ IF ~serializes
           THEN /\ goResult' = call.result
                /\ UNCHANGED <<serializerPool, buffers>>
           ELSE /\ serializerPool = {} => Len(buffers) < MaxSerializers
                /\ \E cut \in Cuts(written) :
                    LET run == Serialize_pooled(serializerPool, buffers, written,
                                                panicAt = "Serialize", cut)
                    IN  /\ serializerPool' = run.pool
                        /\ buffers' = run.bufs
                        /\ goResult' = IF panicAt = "Serialize" THEN call.result
                                       ELSE GoString(StringBytes(run.bufs, run.result))
        /\ UNCHANGED <<calls, errVars, serVars, resVars, jsVars, strVars>>

InitSequential ==
    /\ StrIdle
    /\ GoIdle
    /\ ResIdle
    /\ ErrIdle
    /\ SerIdle
    /\ PoolIdle
    /\ JsIdle

NextSequential ==
    \E args \in SequentialArgs, panicAt \in Callees \cup {"none"} : ParseJS(args, panicAt)

SpecSequential == InitSequential /\ [][NextSequential]_vars

\* the callee that panicked was invoked by the call
Panicked == goPanic # "none" /\ goTrace # <<>> /\ goTrace[Len(goTrace)] = goPanic

\* C20: whichever of ParseFile, Resolve and Serialize panics during a
\* goFastParse call, parseJS returns: what it returns is an error result
\* whose message starts with "internal error: " (in the build that returns
\* JSON text and in the build that returns a map), no callee is invoked
\* after the one that panicked, and every call in which no callee panics,
\* whatever the calls before it did, returns what the same call returns on
\* a fresh instance.
C20_PanicsAreRecovered ==
    goReturned =>
        /\ goResult.t = "string"
        /\ Panicked =>
                /\ SubSeq(goResult.text, 1, 5)
                        = <<LB, S("error"), CL, B(QUOTE), T("internal error: ")>>
                /\ IsErrorText(goResult)
                /\ ~IsProgramText(goResult)
                /\ GoAnswer("map", goArgs, goPanic).t = "object"
                /\ GoAnswer("map", goArgs, goPanic).error[1] = T("internal error: ")
        /\ ~Panicked => goResult = GoCalls[goArgs, "none"].result

\* a Serializer was lost to a panic inside Serialize after part of the
\* output was written, a later call took a new one, and the call after that
\* has now serialized another program into the pooled one
C20_Witness ==
    /\ goPanic = "none"
    /\ IsProgramText(goResult)
    /\ goArgs = <<JsString("")>>
    /\ Len(buffers) = 2
    /\ buffers[1].len > 0
    /\ 1 \notin serializerPool
    /\ 2 \in serializerPool
    /\ Len(buffers[2].mem) > Len(goResult.text)

(***************************************************************************)
(*                      THE JAVASCRIPT WRAPPERS                            *)
(* browser.js and node.cjs are the plain JavaScript wrappers (module       *)
(* variable goFastParse; node.cjs keeps no initPromise); node.ts and       *)
(* browser.ts are the wrappers of the npm package (initialized flag,       *)
(* teardown).  An async call takes a slot of `pending` while it waits at   *)
(* its await; what runs between two awaits is one step.                    *)
(***************************************************************************)
MaxInits == 2       \* initializations started
MaxPending == 2     \* async calls waiting at one time

Wrappers == {"browser.js", "node.cjs", "node.ts", "browser.ts"}
KeepsInitPromise(w) == w # "node.cjs"
IsTs(w) == w \in {"node.ts", "browser.ts"}
HasSyncParse(w) == w # "node.ts"
HasAsyncParse(w) == w # "browser.ts"

NotInitialized == "WASM not initialized. Call init() first."
MustProvideWasmURL == "Must provide the \"wasmURL\" option"

\* the number of awaits in the body of the initialization: compile and
\* instantiate in node.ts; instantiateStreaming, or fetch, arrayBuffer and
\* instantiate, in browser.ts
AwaitsOf(w) ==
    CASE w = "node.ts" -> {2}
      [] w = "browser.ts" -> {1, 3}
      [] OTHER -> {1}

Slots == 1..MaxPending
NoCall == [op |-> "none", on |-> 0, now |-> ""]
\* a call waiting for promise p; a call whose init() returned a promise
\* that is settled already
WaitsOn(op, p) == [op |-> op, on |-> p, now |-> ""]
WaitsOnSettled(op, state) == [op |-> op, on |-> 0, now |-> state]
StatusOf(slot) == IF slot.now # "" THEN slot.now ELSE promises[slot.on].state

Value(kind, msg, callee) == [ret |-> "value", kind |-> kind, msg |-> msg, callee |-> callee]
Throw(msg, callee) == [ret |-> "throw", kind |-> "", msg |-> msg, callee |-> callee]
\* the record of a completed call
Outcome(op, o) ==
    [op |-> op, ret |-> o.ret, kind |-> o.kind, msg |-> o.msg, callee |-> o.callee,
     ready |-> ready, avail |-> globalGoFastParse # 0]

\* a version of init() that assigns initPromise before it looks at wasmURL:
\* the missing option leaves a rejected promise behind
init_assignsFirst(c, op, wasmURL, awaits) ==
    /\ pending[c].op = "none"
    /\ IF (IF IsTs(wrapper) THEN initialized ELSE goFastParse # 0)
       THEN /\ pending' = [pending EXCEPT ![c] = WaitsOnSettled(op, "fulfilled")]
            /\ UNCHANGED <<initPromise, promises>>
       ELSE IF KeepsInitPromise(wrapper) /\ initPromise # 0
       THEN /\ pending' = [pending EXCEPT ![c] = WaitsOn(op, initPromise)]
            /\ UNCHANGED <<initPromise, promises>>
       ELSE /\ Len(promises) < MaxInits
            /\ promises' = Append(promises,
                    IF wrapper = "browser.ts" /\ ~wasmURL
                    THEN [state |-> "rejected", awaits |-> 0]
                    ELSE [state |-> "pending", awaits |-> awaits])
            /\ initPromise' = IF KeepsInitPromise(wrapper) THEN Len(promises) + 1
                              ELSE initPromise
            /\ pending' = [pending EXCEPT ![c] = WaitsOn(op, Len(promises) + 1)]
    /\ UNCHANGED <<wrapper, goFastParse, globalGoFastParse, initialized, runs,
                   tornDown, ready, last, notJsVars>>

\* init(), up to its first await, called by the async call in slot c
init(c, op, wasmURL, awaits) ==
    /\ pending[c].op = "none"
    /\ IF (IF IsTs(wrapper) THEN initialized ELSE goFastParse # 0)
       THEN /\ pending' = [pending EXCEPT ![c] = WaitsOnSettled(op, "fulfilled")]
            /\ UNCHANGED <<initPromise, promises>>
       ELSE IF KeepsInitPromise(wrapper) /\ initPromise # 0
       THEN /\ pending' = [pending EXCEPT ![c] = WaitsOn(op, initPromise)]
            /\ UNCHANGED <<initPromise, promises>>
       ELSE IF wrapper = "browser.ts" /\ ~wasmURL
       THEN /\ pending' = [pending EXCEPT ![c] = WaitsOnSettled(op, "rejected")]
            /\ UNCHANGED <<initPromise, promises>>
       ELSE /\ Len(promises) < MaxInits
            /\ promises' = Append(promises, [state |-> "pending", awaits |-> awaits])
            /\ initPromise' = IF KeepsInitPromise(wrapper) THEN Len(promises) + 1
                              ELSE initPromise
            /\ pending' = [pending EXCEPT ![c] = WaitsOn(op, Len(promises) + 1)]
    /\ UNCHANGED <<wrapper, goFastParse, globalGoFastParse, initialized, runs,
                   tornDown, ready, last, notJsVars>>

\* a caller calls init(...)
CallInit(c, wasmURL, awaits) == init(c, "init", wasmURL, awaits)

\* a caller calls parseAsync (node.ts: parse), which starts with
\* `await init()`
CallParseAsync(c, awaits) ==
    /\ HasAsyncParse(wrapper)
    /\ init(c, "parse", TRUE, awaits)

\* an await of the initialization p resolves and another one follows
AwaitResolves(p) ==
    /\ promises[p].state = "pending"
    /\ promises[p].awaits > 1
    /\ promises' = [promises EXCEPT ![p].awaits = @ - 1]
    /\ UNCHANGED <<wrapper, goFastParse, globalGoFastParse, initialized, initPromise,
                   runs, tornDown, ready, pending, last, notJsVars>>

\* the last await of the initialization p resolves: go.run(instance), which
\* registers globalThis.goFastParse, then the module's own assignment
InitCompletes(p) ==
    /\ promises[p].state = "pending"
    /\ promises[p].awaits = 1
    /\ runs' = runs + 1
    /\ globalGoFastParse' = runs + 1
    /\ goFastParse' = IF IsTs(wrapper) THEN goFastParse ELSE runs + 1
    /\ initialized' = IF IsTs(wrapper) THEN TRUE ELSE initialized
    /\ promises' = [promises EXCEPT ![p] = [state |-> "fulfilled", awaits |-> 0]]
    /\ ready' = TRUE
    /\ UNCHANGED <<wrapper, initPromise, tornDown, pending, last, notJsVars>>

\* a version of the initialization that forgets its promise when it fails
InitFails_clearsPromise(p) ==
    /\ promises[p].state = "pending"
    /\ promises' = [promises EXCEPT ![p] = [state |-> "rejected", awaits |-> 0]]
    /\ initPromise' = IF initPromise = p THEN 0 ELSE initPromise
    /\ UNCHANGED <<wrapper, goFastParse, globalGoFastParse, initialized,
                   runs, tornDown, ready, pending, last, notJsVars>>

\* the await that the initialization p is at rejects
InitFails(p) ==
    /\ promises[p].state = "pending"
    /\ promises' = [promises EXCEPT ![p] = [state |-> "rejected", awaits |-> 0]]
    /\ UNCHANGED <<wrapper, goFastParse, globalGoFastParse, initialized, initPromise,
                   runs, tornDown, ready, pending, last, notJsVars>>

\* teardown() of the TypeScript wrappers
Teardown ==
    /\ IsTs(wrapper)
    /\ initialized' = FALSE
    /\ initPromise' = 0
    /\ globalGoFastParse' = 0
    /\ tornDown' = TRUE
    /\ ready' = FALSE
    /\ last' = Outcome("teardown", Value("", "", "none"))
    /\ UNCHANGED <<wrapper, goFastParse, promises, runs, pending, notJsVars>>

\* JSON.parse(v): v is turned into a string first, and the string of an
\* object is no JSON text
JSON_parse(v) ==
    IF v.t = "string" /\ WellFormed(v.text)
    THEN [threw |-> FALSE,
          kind |-> IF "error" \in KeysOf(v.text, 1) THEN "error" ELSE "ast"]
    ELSE [threw |-> TRUE, kind |-> ""]

\* a version of the plain JavaScript parse without the check of goFastParse
parse_js_noGuard(answer) ==
    IF goFastParse = 0 THEN Throw("TypeError: goFastParse is not a function", "null")
    ELSE IF answer.t = "throw" THEN Throw("exception of goFastParse", "go")
    ELSE IF answer.json.threw THEN Throw("SyntaxError", "go")
    ELSE Value(answer.json.kind, "", "go")

\* parse(source, options) of browser.js and node.cjs, goFastParse answering
\* `answer` if it is called
parse_js(answer) ==
    IF goFastParse = 0 THEN Throw(NotInitialized, "none")
    ELSE IF answer.t = "throw" THEN Throw("exception of goFastParse", "go")
    ELSE IF answer.json.threw THEN Throw("SyntaxError", "go")
    ELSE Value(answer.json.kind, "", "go")

\* the TypeScript wrappers from the call of globalThis.goFastParse on: the
\* call in a try, the check of the type, JSON.parse in a try
parse_checked(answer) ==
    IF globalGoFastParse = 0 THEN Value("error", "WASM execution failed", "undefined")
    ELSE IF answer.t = "throw" THEN Value("error", "WASM execution failed", "go")
    ELSE IF answer.t # "string"
    THEN Value("error", "Unexpected result type from WASM", "go")
    ELSE IF answer.json.threw
    THEN Value("error", "Failed to parse WASM output as JSON", "go")
    ELSE Value(answer.json.kind, "", "go")

\* parse(source, options) of browser.ts
parse_browser_ts(answer) ==
    IF ~initialized \/ globalGoFastParse = 0 THEN Throw(NotInitialized, "none")
    ELSE parse_checked(answer)

\* the answers of goFastParse(source, options) that the wrappers meet: of
\* every build, for the sources of the model, with the option object that
\* parse passes on; each with what JSON.parse makes of it
JsOptions == {JsObject(JsUndefined), JsObject(JsBoolean(TRUE))}
JsAnswers ==
    {[t |-> a.t, json |-> JSON_parse(a)] :
        a \in {GoAnswer(b, <<JsString(s), o>>, pa) :
                    b \in GoBuilds, s \in GoSources, o \in JsOptions,
                    pa \in Callees \cup {"none"}}}

\* a caller calls the synchronous parse; goFastParse, if called, answers
\* `answer`
Parse(answer) ==
    /\ HasSyncParse(wrapper)
    /\ last' = Outcome("parse",
            IF wrapper = "browser.ts" THEN parse_browser_ts(answer)
            ELSE parse_js(answer))
    /\ UNCHANGED <<wrapper, goFastParse, globalGoFastParse, initialized, initPromise,
                   promises, runs, tornDown, ready, pending, notJsVars>>

\* the promise that an init call waits for has settled: the call's own
\* promise settles the same way
InitSettles(c) ==
    /\ pending[c].op = "init"
    /\ StatusOf(pending[c]) # "pending"
    /\ last' = Outcome("init",
            IF StatusOf(pending[c]) = "fulfilled" THEN Value("", "", "none")
            ELSE Throw(IF pending[c].now = "rejected" THEN MustProvideWasmURL
                       ELSE "initialization failed", "none"))
    /\ pending' = [pending EXCEPT ![c] = NoCall]
    /\ UNCHANGED <<wrapper, goFastParse, globalGoFastParse, initialized, initPromise,
                   promises, runs, tornDown, ready, notJsVars>>

\* `await init()` of an async parse returns or throws: the rest of the call
ParseResumes(c, answer) ==
    /\ pending[c].op = "parse"
    /\ StatusOf(pending[c]) # "pending"
    /\ last' = Outcome("parseAsync",
            IF StatusOf(pending[c]) = "rejected"
            THEN Throw("initialization failed", "none")
            ELSE IF wrapper = "node.ts" THEN parse_checked(answer)
            ELSE parse_js(answer))
    /\ pending' = [pending EXCEPT ![c] = NoCall]
    /\ UNCHANGED <<wrapper, goFastParse, globalGoFastParse, initialized, initPromise,
                   promises, runs, tornDown, ready, notJsVars>>

InitJs ==
    /\ StrIdle
    /\ wrapper \in Wrappers
    /\ pending = [c \in Slots |-> NoCall]
    /\ JsFresh
    /\ ErrIdle
    /\ SerIdle
    /\ PoolIdle
    /\ GoIdle
    /\ ResIdle

NextJs ==
    \/ \E c \in Slots, wasmURL \in BOOLEAN, awaits \in AwaitsOf(wrapper) :
            CallInit(c, wasmURL, awaits)
    \/ \E c \in Slots, awaits \in AwaitsOf(wrapper) : CallParseAsync(c, awaits)
    \/ \E p \in 1..Len(promises) : AwaitResolves(p)
    \/ \E p \in 1..Len(promises) : InitCompletes(p)
    \/ \E p \in 1..Len(promises) : InitFails(p)
    \/ Teardown
    \/ \E c \in Slots : InitSettles(c)
    \/ \E a \in JsAnswers : Parse(a)
    \/ \E c \in Slots, a \in JsAnswers : ParseResumes(c, a)

SpecJs == InitJs /\ [][NextJs]_vars

\* C2: once initialization has completed (and, for an async parse, its own
\* `await init()` has returned), parse returns the parsed AST or an object
\* with an "error" member, whatever goFastParse answers; it never throws.
C2_ParseNeverThrowsOnceInitialized ==
    (/\ last.op \in {"parse", "parseAsync"}
     /\ last.ready
     /\ last.msg # "initialization failed") =>
        /\ last.ret = "value"
        /\ last.kind \in {"ast", "error"}

BrowserWrappers == {"browser.js", "browser.ts"}

\* C3: on the browser entry points, a synchronous parse calls goFastParse
\* when an init has completed and no teardown has run since; in every other
\* state it throws "WASM not initialized. Call init() first.", calls
\* nothing, and changes nothing of the module's state.
C3_SyncParseOnlyWhenInitialized ==
    [][(wrapper \in BrowserWrappers /\ last' # last /\ last'.op = "parse") =>
            IF ready
            THEN last'.callee = "go"
            ELSE /\ last'.ret = "throw"
                 /\ last'.msg = NotInitialized
                 /\ last'.callee = "none"
                 /\ UNCHANGED <<goFastParse, globalGoFastParse, initialized,
                                initPromise, promises, runs, pending>>]_vars

\* after an initialization and a teardown, a parse on browser.ts threw the
\* message and called nothing
C3_Witness ==
    /\ wrapper = "browser.ts"
    /\ runs >= 1
    /\ tornDown
    /\ last.op = "parse"
    /\ ~last.ready
    /\ last.ret = "throw"
    /\ last.msg = NotInitialized
    /\ last.callee = "none"

\* C4: with no teardown, whatever init and parseAsync calls are issued and
\* however they interleave, go.run is called at most once, and an init or
\* parseAsync promise resolves only when goFastParse is available.
C4_RuntimeStartedAtMostOnce ==
    ~tornDown =>
        /\ runs <= 1
        /\ (last.op \in {"init", "parseAsync"} /\ last.ret = "value") => last.avail

InitHasFailed == initPromise # 0 /\ promises[initPromise].state = "rejected"

\* C27: in the wrappers that keep an initPromise, a failed first
\* initialization is permanent until teardown: initPromise stays the rejected
\* promise; every init, parseAsync and node parse call made after it waits
\* on that promise and rejects with its error, calling nothing; go.run is
\* not called and no initialization is started.  Only teardown, in the
\* wrappers that have it, clears initPromise, and the next init then starts
\* a new initialization.
C27_FailedInitIsPermanentUntilTeardown ==
    [][KeepsInitPromise(wrapper) =>
        /\ \A p \in 1..Len(promises) :
                (/\ initPromise = p
                 /\ promises[p].state = "pending"
                 /\ promises'[p].state = "rejected") => initPromise' = p
        /\ (~tornDown /\ InitHasFailed) =>
                \/ /\ IsTs(wrapper)
                   /\ tornDown'
                   /\ initPromise' = 0
                \/ /\ ~tornDown'
                   /\ UNCHANGED <<initPromise, promises, runs, goFastParse,
                                  globalGoFastParse, initialized>>
                   /\ \A c \in Slots :
                        /\ (pending[c].op = "none" /\ pending'[c].op # "none") =>
                                /\ pending'[c].on = initPromise
                                /\ StatusOf(pending'[c]) = "rejected"
                        /\ (pending[c].on = initPromise /\ pending'[c].op = "none") =>
                                /\ last'.ret = "throw"
                                /\ last'.msg = "initialization failed"
                                /\ last'.callee = "none"
        /\ \A c \in Slots, awaits \in AwaitsOf(wrapper) :
                (/\ tornDown
                 /\ ~initialized
                 /\ initPromise = 0
                 /\ Len(promises) >= 1
                 /\ promises[1].state = "rejected"
                 /\ CallInit(c, TRUE, awaits)) =>
                    /\ initPromise' = Len(promises) + 1
                    /\ promises'[initPromise'].state = "pending"]_vars

\* with no teardown, the initialization failed, a call has rejected with its
\* error, and another call waits on the rejected promise
C27_Witness ==
    /\ KeepsInitPromise(wrapper)
    /\ ~tornDown
    /\ InitHasFailed
    /\ Len(promises) = 1
    /\ runs = 0
    /\ last.op = "parseAsync"
    /\ last.ret = "throw"
    /\ last.msg = "initialization failed"
    /\ \E c \in Slots : pending[c] = WaitsOn("init", initPromise)

\* `initialized` is true only when globalThis.goFastParse is defined
InitializedHasGoFastParse == initialized => globalGoFastParse # 0

\* the node parse, past its `await init()`, called a goFastParse that was
\* undefined
CalledUndefined ==
    /\ wrapper = "node.ts"
    /\ last.op = "parseAsync"
    /\ last.callee = "undefined"

\* C28: on the npm entry points (node.ts, browser.ts), in every interleaving
\* of init, teardown and parse, `initialized` is true only when
\* globalThis.goFastParse is defined, and the node parse never calls an
\* undefined goFastParse after its `await init()` has returned.
C28_TeardownNeverLeavesParseWithoutGoFastParse ==
    IsTs(wrapper) =>
        /\ InitializedHasGoFastParse
        /\ ~CalledUndefined

(***************************************************************************)
(*                        THE TWO STRING ENCODERS                          *)
(* Serializer.writeString and errorJSON, each applied to one string.  A    *)
(* string handed to writeString is a sequence of bytes; a message handed   *)
(* to errorJSON is a sequence of runes, one piece each.                    *)
(***************************************************************************)
MaxStrLen == 2      \* longest string handed to an encoder

\* bytes of each class the encoders tell apart: the five with a short
\* escape, two other control bytes, a letter, the two bytes of U+00E9 and a
\* byte that no UTF-8 text holds
ByteValues == {QUOTE, BACKSLASH, NL, CR, TAB, 1, 31, 97, 195, 169, 255}

ByteStrings == SeqsUpTo(ByteValues, MaxStrLen)

\* runes of a message: the five with a short escape, a control character, a
\* letter, and the text parseJS puts before a recovered panic
MessageRunes ==
    {B(c) : c \in {QUOTE, BACKSLASH, NL, CR, TAB, 1, 97}} \cup {T("internal error: ")}

MessageStrings == SeqsUpTo(MessageRunes, MaxStrLen)

\* s.writeString(str) on an empty buffer
WriteString(s) ==
    /\ strFn = "none"
    /\ strFn' = "writeString"
    /\ strArg' = s
    /\ strOut' = writeString(s)
    /\ UNCHANGED notStrVars

\* errorJSON(msg)
ErrorJSON(msg) ==
    /\ strFn = "none"
    /\ strFn' = "errorJSON"
    /\ strArg' = msg
    /\ strOut' = errorJSON(msg)
    /\ UNCHANGED notStrVars

InitStrings ==
    /\ StrIdle
    /\ ErrIdle
    /\ SerIdle
    /\ PoolIdle
    /\ GoIdle
    /\ ResIdle
    /\ JsIdle

NextStrings ==
    \/ \E s \in ByteStrings : WriteString(s)
    \/ \E msg \in MessageStrings : ErrorJSON(msg)

SpecStrings == InitStrings /\ [][NextStrings]_vars

\* C21: for every message, errorJSON returns a well-formed JSON text: an
\* object with the single member "error", whose value decodes to the
\* message.
C21_ErrorJsonRoundTrips ==
    strFn = "errorJSON" =>
        /\ WellFormed(strOut)
        /\ KeysOf(strOut, 1) = {"error"}
        /\ Len(Members(strOut, 1)) = 1
        /\ JsonString(strOut, ValueIndex(strOut, 1, "error")) = strArg

\* a byte that writeString copies: not below 0x20, not '"', not '\\'
IsPlainByte(c) == c >= SPACE /\ c # QUOTE /\ c # BACKSLASH

\* the byte pieces of a string body from j that are not part of an escape
RECURSIVE PlainFrom(_, _)
PlainFrom(o, j) ==
    IF j > Len(o) \/ o[j] = B(QUOTE) THEN <<>>
    ELSE IF o[j].k = "raw" /\ o[j].lit = "\\u00" THEN PlainFrom(o, j + 3)
    ELSE IF o[j].k = "raw" THEN PlainFrom(o, j + 1)
    ELSE <<o[j].b>> \o PlainFrom(o, j + 1)

\* what writeString emits is one double-quoted JSON string without a raw
\* quote, backslash or control byte inside, its plain bytes are those of
\* the string in order, and undoing its escapes gives the string back
EscapedAndCopied ==
    /\ strOut[1] = B(QUOTE)
    /\ strOut[Len(strOut)] = B(QUOTE)
    /\ StringEnd(strOut, 1) = Len(strOut) + 1
    /\ WellFormed(strOut)
    /\ \A j \in 2..(Len(strOut) - 1) :
            strOut[j].k = "byte" => IsPlainByte(strOut[j].b)
    /\ PlainFrom(strOut, 2) = SelectSeq(strArg, IsPlainByte)
    /\ UnescapeFrom(strOut, 2) = Bytes(strArg)

\* C22 as stated: for every byte string, writeString emits a double-quoted
\* JSON string in which every quote, backslash and byte below 0x20 is
\* escaped and every other byte is copied, and JSON-decoding it returns the
\* string.
C22_WriteStringRoundTrips ==
    strFn = "writeString" =>
        /\ EscapedAndCopied
        /\ JsonString(strOut, 1) = Bytes(strArg)

\* C22 amended: for every byte string, writeString emits a double-quoted
\* JSON string in which every quote, backslash and byte below 0x20 is
\* escaped and every other byte is copied, so that undoing the escapes
\* gives the bytes back; and JSON-decoding it returns the string when the
\* string is valid UTF-8.
C22_WriteStringEscapes ==
    strFn = "writeString" =>
        /\ EscapedAndCopied
        /\ IsUtf8(strArg) => JsonString(strOut, 1) = Bytes(strArg)

\* a control byte without a short escape, then a quote, have been written
C22_Witness ==
    /\ strFn = "writeString"
    /\ strArg = <<31, QUOTE>>
    /\ strOut = <<B(QUOTE), L("\\u00"), B(49), B(102), L("\\\""), B(QUOTE)>>

=============================================================================
